---- MODULE Spec2Model ----
(***************************************************************************)
(* A model of the ciigo AsciiDoc parser: the line classifier, the header   *)
(* parser, the body parser with its three list parsers, the block          *)
(* sub-parser and the list-block sub-parser, and the document tree they    *)
(* build.                                                                  *)
(*                                                                         *)
(* A string is a sequence of one-character strings, so that the byte-level *)
(* code of the classifier and of the node parsers is modelled as written.  *)
(* A document is a sequence of lines plus a flag telling whether the last  *)
(* line is terminated by a newline.  Once Parse has returned the tree is   *)
(* rendered by ToHTML.  The functions of the package that take a string    *)
(* and give a value are also run on their own, on strings drawn from small *)
(* alphabets.                                                              *)
(***************************************************************************)
EXTENDS Naturals, Integers, Sequences, FiniteSets, TLC

VARIABLES
    lines,          \* the content handed to Parse, split at "\n"
    finalNL,        \* TRUE when the content ends with "\n"
    doc,            \* the Document's fields (line source position included)
    nodes,          \* the adocNode arena: node id -> fields
    stack,          \* the call stack of the parser, innermost frame last
    pc,             \* "run" | "done" | "panic"
    html,           \* what each ToHTML call so far wrote, as markup tokens
    call,           \* a function called on its own: its name and argument
    ret             \* the results of that call, in the order they were made

vars == <<lines, finalNL, doc, nodes, stack, pc, html, call, ret>>

----------------------------------------------------------------------------
(* Node and line kinds, numbered as the iota block does.                   *)

nodeKindUnknown == 0
nodeKindDocHeader == 1
nodeKindPreamble == 2
nodeKindDocContent == 3
nodeKindSectionL1 == 4
nodeKindSectionL2 == 5
nodeKindSectionL3 == 6
nodeKindSectionL4 == 7
nodeKindSectionL5 == 8
nodeKindParagraph == 9
nodeKindLiteralParagraph == 10
nodeKindBlockAdmonition == 11
nodeKindBlockAudio == 12
nodeKindBlockImage == 13
nodeKindBlockListingDelimiter == 14
nodeKindBlockLiteralNamed == 15
nodeKindBlockLiteralDelimiter == 16
nodeKindBlockOpen == 17
nodeKindBlockSidebar == 18
nodeKindBlockVideo == 19
nodeKindListOrdered == 20
nodeKindListOrderedItem == 21
nodeKindListUnordered == 22
nodeKindListUnorderedItem == 23
nodeKindListDescription == 24
nodeKindListDescriptionItem == 25
lineKindAdmonition == 26
lineKindAttribute == 27
lineKindBlockComment == 28
lineKindBlockTitle == 29
lineKindComment == 30
lineKindEmpty == 31
lineKindHorizontalRule == 32
lineKindListContinue == 33
lineKindPageBreak == 34
lineKindStyle == 35
lineKindStyleClass == 36
lineKindText == 37

\* nodeKindBlockExample is used by the parsers and by whatKindOfLine; the
\* iota block of the node file predates it, it follows lineKindText.
nodeKindBlockExample == 38

(* Style flags: styleNone is 0, every other flag is 1 << (iota - 1).       *)
styleNone == 0
styleSectionColophon == 1
styleSectionAbstract == 2
styleSectionPreface == 4
styleSectionDedication == 8
styleSectionPartIntroduction == 16
styleSectionAppendix == 32
styleSectionGlossary == 64
styleSectionBibliography == 128
styleSectionIndex == 256
styleParagraphLead == 512
styleParagraphNormal == 1024
styleNumberingArabic == 2048
styleNumberingDecimal == 4096
styleNumberingLoweralpha == 8192
styleNumberingUpperalpha == 16384
styleNumberingLowerroman == 32768
styleNumberingUpperroman == 65536
styleNumberingLowergreek == 131072
styleDescriptionHorizontal == 262144
styleDescriptionQandA == 524288
styleAdmonition == 1048576
styleBlockListing == 2097152

----------------------------------------------------------------------------
(* Strings as sequences of characters.                                     *)

SP == " "
TAB == "\t"
LF == "\n"

Digits == {"0", "1", "2", "3", "4", "5", "6", "7", "8", "9"}
LowerSeq == <<"a", "b", "c", "d", "e", "f", "g", "h", "i", "j", "k", "l", "m",
              "n", "o", "p", "q", "r", "s", "t", "u", "v", "w", "x", "y", "z">>
UpperSeq == <<"A", "B", "C", "D", "E", "F", "G", "H", "I", "J", "K", "L", "M",
              "N", "O", "P", "Q", "R", "S", "T", "U", "V", "W", "X", "Y", "Z">>
LowerSet == {LowerSeq[i] : i \in 1..Len(LowerSeq)}
UpperSet == {UpperSeq[i] : i \in 1..Len(UpperSeq)}

Min(S) == CHOOSE i \in S : \A j \in S : i <= j

Max(S) == CHOOSE i \in S : \A j \in S : i >= j

IsAlnum(ch) == ch \in Digits \cup LowerSet \cup UpperSet

ToLowerChar(ch) ==
    IF ch \in UpperSet
    THEN LowerSeq[CHOOSE i \in 1..Len(UpperSeq) : UpperSeq[i] = ch]
    ELSE ch

ToLower(s) == [i \in 1..Len(s) |-> ToLowerChar(s[i])]

ToUpperChar(ch) ==
    IF ch \in LowerSet
    THEN UpperSeq[CHOOSE i \in 1..Len(LowerSeq) : LowerSeq[i] = ch]
    ELSE ch

HasPrefix(s, p) == Len(s) >= Len(p) /\ SubSeq(s, 1, Len(p)) = p

\* s[from:] with a 0-based index, as a Go slice expression.
From(s, from) == SubSeq(s, from + 1, Len(s))

\* s[:to] with a 0-based exclusive end.
Upto(s, to) == SubSeq(s, 1, to)

\* strings.Title of a single word: its first letter in upper case.
Title(s) == IF Len(s) = 0 THEN s ELSE <<ToUpperChar(s[1])>> \o From(s, 1)

\* strings.Index: the 0-based index of the first occurrence of p, or -1.
Index(s, p) ==
    LET first(hits) == IF hits = {} THEN -1 ELSE Min(hits)
    IN first({i \in 0..(Len(s) - Len(p)) : SubSeq(s, i + 1, i + Len(p)) = p})

IndexByte(s, ch) == Index(s, <<ch>>)

\* strings.TrimLeft(s, cutset): drop leading characters that are in cutset.
TrimLeft(s, cutset) ==
    LET from(keep) == IF keep = {} THEN <<>> ELSE SubSeq(s, Min(keep), Len(s))
    IN from({i \in 1..Len(s) : s[i] \notin cutset})

TrimRight(s, cutset) ==
    LET upto(keep) == IF keep = {} THEN <<>> ELSE SubSeq(s, 1, Max(keep))
    IN upto({i \in 1..Len(s) : s[i] \notin cutset})

Trim(s, cutset) == TrimLeft(TrimRight(s, cutset), cutset)

WhiteSpace == {SP, TAB, LF, "\r"}

TrimSpace(s) == Trim(s, WhiteSpace)

\* The longest prefix of t without a white space.
untilSpace(t) ==
    LET cut(sp) == IF sp = {} THEN t ELSE SubSeq(t, 1, Min(sp) - 1)
    IN cut({i \in 1..Len(t) : t[i] \in WhiteSpace})

\* strings.Fields(s)[0]: the first maximal run of non-space characters.
FirstField(s) == untilSpace(TrimLeft(s, WhiteSpace))

\* The first part of strings.Split(s, ch).
FirstPart(s, ch) ==
    LET cut(i) == IF i < 0 THEN s ELSE Upto(s, i)
    IN cut(IndexByte(s, ch))

RECURSIVE BitAnd(_, _)
BitAnd(a, b) ==
    IF a = 0 \/ b = 0 THEN 0
    ELSE 2 * BitAnd(a \div 2, b \div 2) + (IF a % 2 = 1 /\ b % 2 = 1 THEN 1 ELSE 0)

RECURSIVE BitOr(_, _)
BitOr(a, b) ==
    IF a = 0 THEN b
    ELSE IF b = 0 THEN a
    ELSE 2 * BitOr(a \div 2, b \div 2) + (IF a % 2 = 1 \/ b % 2 = 1 THEN 1 ELSE 0)

----------------------------------------------------------------------------
(* The line classifier.                                                    *)

admonitionCaution == <<"C", "A", "U", "T", "I", "O", "N">>
admonitionImportant == <<"I", "M", "P", "O", "R", "T", "A", "N", "T">>
admonitionNote == <<"N", "O", "T", "E">>
admonitionTip == <<"T", "I", "P">>
admonitionWarning == <<"W", "A", "R", "N", "I", "N", "G">>

\* The style table; a name that is not a key maps to styleNone, as a Go map
\* lookup of a missing key does.
adocStyles(name) ==
    CASE name = <<"c", "o", "l", "o", "p", "h", "o", "n">> -> styleSectionColophon
      [] name = <<"a", "b", "s", "t", "r", "a", "c", "t">> -> styleSectionAbstract
      [] name = <<"p", "r", "e", "f", "a", "c", "e">> -> styleSectionPreface
      [] name = <<"d", "e", "d", "i", "c", "a", "t", "i", "o", "n">> -> styleSectionDedication
      [] name = <<"p", "a", "r", "t", "i", "n", "t", "r", "o">> -> styleSectionPartIntroduction
      [] name = <<"a", "p", "p", "e", "n", "d", "i", "x">> -> styleSectionAppendix
      [] name = <<"g", "l", "o", "s", "s", "a", "r", "y">> -> styleSectionGlossary
      [] name = <<"b", "i", "b", "l", "i", "o", "g", "r", "a", "p", "h", "y">> -> styleSectionBibliography
      [] name = <<"i", "n", "d", "e", "x">> -> styleSectionIndex
      [] name = <<".", "l", "e", "a", "d">> -> styleParagraphLead
      [] name = <<".", "n", "o", "r", "m", "a", "l">> -> styleParagraphNormal
      [] name = <<"a", "r", "a", "b", "i", "c">> -> styleNumberingArabic
      [] name = <<"d", "e", "c", "i", "m", "a", "l">> -> styleNumberingDecimal
      [] name = <<"l", "o", "w", "e", "r", "a", "l", "p", "h", "a">> -> styleNumberingLoweralpha
      [] name = <<"u", "p", "p", "e", "r", "a", "l", "p", "h", "a">> -> styleNumberingUpperalpha
      [] name = <<"l", "o", "w", "e", "r", "r", "o", "m", "a", "n">> -> styleNumberingLowerroman
      [] name = <<"u", "p", "p", "e", "r", "r", "o", "m", "a", "n">> -> styleNumberingUpperroman
      [] name = <<"l", "o", "w", "e", "r", "g", "r", "e", "e", "k">> -> styleNumberingLowergreek
      [] name = <<"h", "o", "r", "i", "z", "o", "n", "t", "a", "l">> -> styleDescriptionHorizontal
      [] name = <<"q", "a", "n", "d", "a">> -> styleDescriptionQandA
      [] name = admonitionCaution -> styleAdmonition
      [] name = admonitionImportant -> styleAdmonition
      [] name = admonitionNote -> styleAdmonition
      [] name = admonitionTip -> styleAdmonition
      [] name = admonitionWarning -> styleAdmonition
      [] name = <<"l", "i", "s", "t", "i", "n", "g">> -> styleBlockListing
      [] OTHER -> styleNone

\* The checks of isAdmonition after the prefix test; x is the length of the
\* admonition name the line starts with.
isAdmonitionAt(line, x) ==
    IF x < 0 THEN FALSE
    ELSE IF x >= Len(line) THEN FALSE
    ELSE IF line[x + 1] = ":"
         THEN IF x + 1 >= Len(line) THEN FALSE
              ELSE line[x + 2] = SP \/ line[x + 2] = TAB
         ELSE FALSE

isAdmonition(line) ==
    isAdmonitionAt(line,
        IF HasPrefix(line, admonitionCaution) THEN Len(admonitionCaution)
        ELSE IF HasPrefix(line, admonitionImportant) THEN Len(admonitionImportant)
        ELSE IF HasPrefix(line, admonitionNote) THEN Len(admonitionNote)
        ELSE IF HasPrefix(line, admonitionTip) THEN Len(admonitionTip)
        ELSE IF HasPrefix(line, admonitionWarning) THEN Len(admonitionWarning)
        ELSE -1)

isLineDescriptionItem(line) ==
    IF Index(line, <<":", ":", SP>>) > 0 THEN TRUE
    ELSE IF Index(line, <<":", ":", TAB>>) > 0 THEN TRUE
    ELSE IF Index(line, <<":", ":">>) > 0 THEN TRUE
    ELSE FALSE

isStyleAdmonition(style) == BitAnd(style, styleAdmonition) > 0

\* isTitle indexes line[0] and line[1] without a length check: ok is FALSE
\* when the index is out of range (a run-time panic).
isTitle(line) ==
    IF line[1] = "=" \/ line[1] = "#"
    THEN IF Len(line) < 2 THEN [ok |-> FALSE, v |-> FALSE]
         ELSE [ok |-> TRUE, v |-> (line[2] = SP \/ line[2] = TAB)]
    ELSE [ok |-> TRUE, v |-> FALSE]

\* The two lookups of parseStyle for the name between the brackets.
styleOfName(name) ==
    IF adocStyles(name) > 0 THEN [styleName |-> name, styleKind |-> adocStyles(name)]
    ELSE [styleName |-> ToLower(name), styleKind |-> adocStyles(ToLower(name))]

parseStyle(line) ==
    styleOfName(Trim(FirstPart(Trim(line, {"[", "]"}), ","), {"\""}))

\* The scan "for x = 0; x < len(line); x++" of the "." and "*" branches:
\* characters equal to the marker are skipped, a space or tab makes the line
\* a list item, any other character is skipped as well.
RECURSIVE scanListMarker(_, _, _)
scanListMarker(line, x, marker) ==
    IF x >= Len(line) THEN FALSE
    ELSE IF line[x + 1] = marker THEN scanListMarker(line, x + 1, marker)
    ELSE IF line[x + 1] = SP \/ line[x + 1] = TAB THEN TRUE
    ELSE scanListMarker(line, x + 1, marker)

\* The leading run of spaces and tabs, as the "for x, r = range line" loop
\* leaves x: the index of the first other character, or of the last
\* character when the line holds nothing else.
leadingSpaces(line) ==
    LET stop(other) == IF other = {} THEN Len(line) - 1 ELSE Min(other)
    IN stop({i \in 0..(Len(line) - 1) : line[i + 1] # SP /\ line[i + 1] # TAB})

KL(kind, spaces, got) == [kind |-> kind, spaces |-> spaces, got |-> got]

\* The switch on strings.Fields(line)[0] of a line that starts with "=".
sectionKind(sub) ==
    CASE sub = <<"=", "=">> -> nodeKindSectionL1
      [] sub = <<"=", "=", "=">> -> nodeKindSectionL2
      [] sub = <<"=", "=", "=", "=">> -> nodeKindSectionL3
      [] sub = <<"=", "=", "=", "=", "=">> -> nodeKindSectionL4
      [] sub = <<"=", "=", "=", "=", "=", "=">> -> nodeKindSectionL5
      [] OTHER -> lineKindText

\* The if-else chain on line[0] that ends whatKindOfLine.
whatKindOfLineTail(spaces, line) ==
    IF line[1] = ":" THEN KL(lineKindAttribute, spaces, line)
    ELSE IF line[1] = "["
    THEN IF TrimRight(line, {SP, TAB})[Len(TrimRight(line, {SP, TAB}))] = "]"
         THEN IF line = <<"[", "l", "i", "t", "e", "r", "a", "l", "]">>
              THEN KL(nodeKindBlockLiteralNamed, spaces, line)
              ELSE IF line[2] = "."
              THEN KL(lineKindStyleClass, spaces, line)
              ELSE KL(lineKindStyle, spaces, line)
         ELSE KL(lineKindText, spaces, line)
    ELSE IF line[1] = "="
    THEN IF line = <<"=", "=", "=", "=">>
         THEN KL(nodeKindBlockExample, spaces, line)
         ELSE KL(sectionKind(FirstField(line)), spaces, line)
    ELSE IF line[1] = "."
    THEN IF Len(line) <= 1 THEN KL(lineKindText, spaces, line)
         ELSE IF line = <<".", ".", ".", ".">>
         THEN KL(nodeKindBlockLiteralDelimiter, spaces, line)
         ELSE IF IsAlnum(line[2]) THEN KL(lineKindBlockTitle, spaces, line)
         ELSE IF scanListMarker(line, 0, ".")
         THEN KL(nodeKindListOrderedItem, spaces, line)
         ELSE KL(lineKindText, spaces, line)
    ELSE IF line[1] = "*"
    THEN IF Len(line) <= 1 THEN KL(lineKindText, spaces, line)
         ELSE IF line = <<"*", "*", "*", "*">>
         THEN KL(nodeKindBlockSidebar, spaces, line)
         ELSE IF scanListMarker(line, 0, "*")
         THEN KL(nodeKindListUnorderedItem, spaces, line)
         ELSE KL(lineKindText, spaces, line)
    ELSE IF line = <<"+">> THEN KL(lineKindListContinue, spaces, line)
    ELSE IF line = <<"-", "-", "-", "-">>
    THEN KL(nodeKindBlockListingDelimiter, spaces, line)
    ELSE IF isLineDescriptionItem(line)
    THEN KL(nodeKindListDescriptionItem, spaces, line)
    ELSE KL(lineKindText, spaces, line)

\* The "if hasSpace" block: line is the text after the leading spaces.
whatKindOfIndented(spaces, line) ==
    IF isLineDescriptionItem(line)
    THEN KL(nodeKindListDescriptionItem, spaces, line)
    ELSE IF line[1] # "*" /\ line[1] # "."
    THEN KL(nodeKindLiteralParagraph, spaces, line)
    ELSE whatKindOfLineTail(spaces, line)

whatKindOfLine(line) ==
    IF Len(line) = 0 THEN KL(lineKindEmpty, <<>>, line)
    ELSE IF HasPrefix(line, <<"/", "/", "/", "/">>)
    THEN KL(lineKindBlockComment, <<>>, line)
    ELSE IF HasPrefix(line, <<"/", "/">>) THEN KL(lineKindComment, <<>>, line)
    ELSE IF line \in {<<"'", "'", "'">>, <<"-", "-", "-">>, <<"-", SP, "-", SP, "-">>,
                      <<"*", "*", "*">>, <<"*", SP, "*", SP, "*">>}
    THEN KL(lineKindHorizontalRule, <<>>, line)
    ELSE IF line = <<"<", "<", "<">> THEN KL(lineKindPageBreak, <<>>, line)
    ELSE IF line = <<"-", "-">> THEN KL(nodeKindBlockOpen, <<>>, line)
    ELSE IF HasPrefix(line, <<"i", "m", "a", "g", "e", ":", ":">>)
    THEN KL(nodeKindBlockImage, <<>>, TrimRight(From(line, 7), {SP, TAB}))
    ELSE IF HasPrefix(line, <<"v", "i", "d", "e", "o", ":", ":">>)
    THEN KL(nodeKindBlockVideo, <<>>, TrimRight(From(line, 7), {SP, TAB}))
    ELSE IF HasPrefix(line, <<"a", "u", "d", "i", "o", ":", ":">>)
    THEN KL(nodeKindBlockAudio, <<>>, TrimRight(From(line, 7), {SP, TAB}))
    ELSE IF isAdmonition(line) THEN KL(lineKindAdmonition, <<>>, line)
    ELSE IF line[1] = SP \/ line[1] = TAB
    THEN whatKindOfIndented(Upto(line, leadingSpaces(line)),
                            From(line, leadingSpaces(line)))
    ELSE whatKindOfLineTail(<<>>, line)

----------------------------------------------------------------------------
(* The node model.  Node 0 is nil; a node lives in the arena from its      *)
(* allocation on, attached to the tree or not.                             *)

NIL == 0

newAdocNode(kind) ==
    [kind |-> kind, level |-> 0, raw |-> <<>>, rawTerm |-> <<>>,
     rawTitle |-> <<>>, style |-> 0, classes |-> <<>>,
     Alt |-> <<>>, Width |-> <<>>, Height |-> <<>>,
     Attrs |-> <<>>, Opts |-> <<>>,
     parent |-> NIL, child |-> NIL, next |-> NIL, prev |-> NIL]

\* The last node of the sibling chain that starts at c: "for c.next != nil".
RECURSIVE lastSibling(_, _)
lastSibling(n, c) == IF n[c].next = NIL THEN c ELSE lastSibling(n, n[c].next)

\* linkChild without "child.prev = c".
linkChild_noPrev(n, node, child) ==
    IF n[node].child = NIL
    THEN [n EXCEPT ![node].child = child]
    ELSE [n EXCEPT ![lastSibling(n, n[node].child)].next = child]

\* The second half of addChild, on the arena in which child is detached.
linkChild(n, node, child) ==
    IF n[node].child = NIL
    THEN [n EXCEPT ![node].child = child]
    ELSE [n EXCEPT ![lastSibling(n, n[node].child)].next = child,
                   ![child].prev = lastSibling(n, n[node].child)]

addChild(n, node, child) ==
    linkChild([n EXCEPT ![child].parent = node, ![child].next = NIL,
                        ![child].prev = NIL], node, child)

\* The first loop of adocNode.parseListOrdered / parseListUnordered: count
\* the markers up to the first space or tab; any other character is skipped.
RECURSIVE countMarkers(_, _, _, _)
countMarkers(line, x, marker, level) ==
    IF x >= Len(line) THEN [x |-> x, level |-> level]
    ELSE IF line[x + 1] = marker THEN countMarkers(line, x + 1, marker, level + 1)
    ELSE IF line[x + 1] = SP \/ line[x + 1] = TAB THEN [x |-> x, level |-> level]
    ELSE countMarkers(line, x + 1, marker, level)

RECURSIVE skipSpaces(_, _)
skipSpaces(line, x) ==
    IF x < Len(line) /\ (line[x + 1] = SP \/ line[x + 1] = TAB)
    THEN skipSpaces(line, x + 1)
    ELSE x

nodeParseListItem(nd, line, marker) ==
    LET item(m) == [nd EXCEPT !.level = m.level,
                              !.raw = nd.raw \o From(line, skipSpaces(line, m.x))
                                             \o <<LF>>]
    IN item(countMarkers(line, 0, marker, nd.level))

nodeParseListOrdered(nd, line) == nodeParseListItem(nd, line, ".")

nodeParseListUnordered(nd, line) == nodeParseListItem(nd, line, "*")

\* The value of x after "for x, c = range line { if c in skip { continue };
\* break }": the index of the first character outside skip, else the last
\* index (0 for an empty line, whose loop body never runs).
rangeStop(line, skip) ==
    LET stop(other) == IF other # {} THEN Min(other)
                       ELSE IF Len(line) = 0 THEN 0 ELSE Len(line) - 1
    IN stop({i \in 0..(Len(line) - 1) : line[i + 1] \notin skip})

\* parseListDescription from "Skip leading spaces" on: line is the text
\* after the colons, or empty.
descriptionBody(nd, line) ==
    IF Len(line) > 0
    THEN [nd EXCEPT !.raw = nd.raw \o From(line, rangeStop(line, {SP, TAB}))]
    ELSE nd

\* parseListDescription from its second loop on: line starts at the first
\* colon, x is where the run of colons stops.
descriptionLevel(nd, line, x) ==
    descriptionBody(
        [nd EXCEPT !.level = nd.level - 2
                       + (IF \E i \in 1..Len(line) : line[i] # ":" THEN x
                          ELSE Len(line))],
        IF x < Len(line) - 1 THEN From(line, x) ELSE <<>>)

\* parseListDescription from the end of its first loop on: x is the index
\* of the first colon, or the last index of a line without one.
descriptionTerm(nd, line, x) ==
    descriptionLevel(
        [nd EXCEPT !.rawTerm = nd.rawTerm
                       \o (IF \E i \in 1..Len(line) : line[i] = ":" THEN Upto(line, x)
                           ELSE line)],
        From(line, x), rangeStop(From(line, x), {":"}))

nodeParseListDescription(nd, line) ==
    descriptionTerm(nd, line,
        LET stop(colons) == IF colons # {} THEN Min(colons)
                            ELSE IF Len(line) = 0 THEN 0 ELSE Len(line) - 1
        IN stop({i \in 0..(Len(line) - 1) : line[i + 1] = ":"}))

nodeParseLineAdmonition(nd, line) ==
    LET parsed(sep, class) ==
            [nd EXCEPT !.classes = Append(nd.classes, class),
                       !.rawTerm = nd.rawTerm \o Title(class),
                       !.raw = nd.raw \o TrimSpace(From(line, sep + 1)) \o <<LF>>]
    IN parsed(IndexByte(line, ":"), ToLower(Upto(line, IndexByte(line, ":"))))

\* strings.Split(s, sep) for a one-character separator.
RECURSIVE Split(_, _)
Split(s, ch) ==
    IF IndexByte(s, ch) < 0 THEN <<s>>
    ELSE <<Upto(s, IndexByte(s, ch))>> \o Split(From(s, IndexByte(s, ch) + 1), ch)

\* The classes of a "[.a.b]" line: the non-empty trimmed parts.
styleClasses(parts) ==
    SelectSeq([i \in 1..Len(parts) |-> TrimSpace(parts[i])], LAMBDA c : Len(c) > 0)

nodeParseStyleClass(nd, line) ==
    [nd EXCEPT !.classes = nd.classes \o styleClasses(Split(Trim(line, {"[", "]"}), "."))]

IsStyleAdmonition(nd) == BitAnd(nd.style, styleAdmonition) > 0

setStyleAdmonition(nd, styleName, styleKind) ==
    [nd EXCEPT !.classes = Append(nd.classes, ToLower(styleName))]

----------------------------------------------------------------------------
(* The parser state handed from one statement to the next: s.d holds the   *)
(* Document's fields, s.n the node arena, s.stack the call stack and s.pc  *)
(* the run state.                                                          *)

Cur == [d |-> doc, n |-> nodes, stack |-> stack, pc |-> pc]

\* The id of the node the next allocation returns.
NextId(s) == Len(s.n) + 1

\* The id of the node allocated last.
LastId(s) == Len(s.n)

Alloc(s, nd) == [s EXCEPT !.n = Append(s.n, nd)]

Panic(s) == [s EXCEPT !.pc = "panic"]

\* parser.Line: the next line without its "\n", and the terminator read:
\* "\n" (10), or 0 at the end of the content.
pLine(x) ==
    IF x < Len(lines)
    THEN [line |-> lines[x + 1],
          c |-> IF x + 1 < Len(lines) \/ finalNL THEN 10 ELSE 0,
          x |-> x + 1]
    ELSE [line |-> <<>>, c |-> 0, x |-> x]

\* Document.line once the line source gave r and whatKindOfLine gave k.
lineRead(s, r, k) ==
    [s |-> [s EXCEPT !.d.prevKind = s.d.kind, !.d.lineNum = s.d.lineNum + 1,
                     !.d.x = r.x, !.d.kind = k.kind],
     spaces |-> k.spaces, line |-> k.got, c |-> r.c]

docLine(s) == lineRead(s, pLine(s.d.x), whatKindOfLine(pLine(s.d.x).line))

\* TRUE when Document.line returned r at the end of the content.
AtEnd(r) == Len(r.line) = 0 /\ r.c = 0

\* parseIgnoreCommentBlock reads the line source directly: doc.kind and
\* doc.prevKind are left as they are.
RECURSIVE ignoreCommentFrom(_)
ignoreCommentFrom(x) ==
    IF HasPrefix(pLine(x).line, <<"/", "/", "/", "/">>) THEN pLine(x).x
    ELSE IF Len(pLine(x).line) = 0 /\ pLine(x).c = 0 THEN pLine(x).x
    ELSE ignoreCommentFrom(pLine(x).x)

parseIgnoreCommentBlock(s) == [s EXCEPT !.d.x = ignoreCommentFrom(s.d.x)]

\* The text consumeLinesUntil writes to the node for the line r.
consumedText(s, node, r) ==
    (IF s.n[node].kind = nodeKindParagraph /\ Len(r.spaces) > 0 THEN <<SP>> ELSE <<>>)
        \o r.line \o <<LF>>

RECURSIVE consumeLinesUntil(_, _, _, _)
RECURSIVE consumeLine(_, _, _, _)
\* The body of the loop of consumeLinesUntil for the line r just read.
consumeLine(r, node, term, terms) ==
    IF AtEnd(r) THEN [s |-> r.s, line |-> r.line, c |-> r.c]
    ELSE IF r.s.d.kind = lineKindBlockComment
    THEN consumeLinesUntil(parseIgnoreCommentBlock(r.s), node, term, terms)
    ELSE IF r.s.d.kind = lineKindComment THEN consumeLinesUntil(r.s, node, term, terms)
    ELSE IF r.s.d.kind = term THEN [s |-> r.s, line |-> <<>>, c |-> 0]
    ELSE IF r.s.d.kind \in terms THEN [s |-> r.s, line |-> r.line, c |-> r.c]
    ELSE consumeLinesUntil(
             [r.s EXCEPT !.n[node].raw = @ \o consumedText(r.s, node, r)],
             node, term, terms)

consumeLinesUntil(s, node, term, terms) == consumeLine(docLine(s), node, term, terms)

\* "doc.nodeCurrent = &adocNode{kind: nodeKindUnknown}"
newNodeCurrent(s) ==
    LET set(s1) == [s1 EXCEPT !.d.nodeCurrent = LastId(s1)]
    IN set(Alloc(s, newAdocNode(nodeKindUnknown)))

terminateCurrentNode(s) ==
    newNodeCurrent(
        IF s.n[s.d.nodeCurrent].kind # nodeKindUnknown
        THEN [s EXCEPT !.n = addChild(s.n, s.d.nodeParent, s.d.nodeCurrent)]
        ELSE s)

\* The key scan of parseAttribute from index x on.
RECURSIVE attributeKey(_, _, _, _)
attributeKey(line, x, key, strict) ==
    IF x >= Len(line) THEN [x |-> x, key |-> key, valid |-> TRUE]
    ELSE IF line[x + 1] = ":" THEN [x |-> x, key |-> key, valid |-> TRUE]
    ELSE IF IsAlnum(line[x + 1]) \/ line[x + 1] = "_" \/ line[x + 1] = "-"
    THEN attributeKey(line, x + 1, Append(key, line[x + 1]), strict)
    ELSE IF strict THEN [x |-> x, key |-> key, valid |-> FALSE]
    ELSE attributeKey(line, x + 1, key, strict)

\* parseAttribute after its key scan gave k.
attributeSet(s, line, k) ==
    IF ~k.valid THEN [ok |-> TRUE, v |-> FALSE, s |-> s]
    ELSE IF k.x = Len(line) THEN [ok |-> TRUE, v |-> FALSE, s |-> s]
    ELSE [ok |-> TRUE, v |-> TRUE,
          s |-> [s EXCEPT !.d.attributes =
                    (k.key :> TrimSpace(From(line, k.x + 1))) @@ @]]

\* parseAttribute indexes line[1] without a length check: ok is FALSE when
\* the line is the single character ":" (a run-time panic).
parseAttribute(s, line, strict) ==
    IF Len(line) < 2 THEN [ok |-> FALSE, v |-> FALSE, s |-> s]
    ELSE IF ~(IsAlnum(line[2]) \/ line[2] = "_") THEN [ok |-> TRUE, v |-> FALSE, s |-> s]
    ELSE attributeSet(s, line, attributeKey(line, 2, <<line[2]>>, strict))

parseHeaderRevision(s, line) ==
    LET rev(idx) ==
            IF idx > 0
            THEN [v |-> TRUE,
                  s |-> [s EXCEPT !.d.RevNumber = SubSeq(line, 2, idx),
                                  !.d.RevDate = TrimSpace(From(line, idx + 1)),
                                  !.d.RevSeparator = <<",">>]]
            ELSE [v |-> TRUE, s |-> [s EXCEPT !.d.RevNumber = From(line, 1)]]
    IN IF line[1] # "v" THEN [v |-> FALSE, s |-> s] ELSE rev(IndexByte(line, ","))

----------------------------------------------------------------------------
(* Block attributes: the text between "[" and "]" of a block macro.  The   *)
(* token reader is parser.New(in, `[,="]`) of the share library: v is the  *)
(* content, x the 0-based read position, c the delimiter read ("" for the  *)
(* rune 0 that marks the end of the content).                              *)

NoDelim == ""

AttrDelims == {"[", ",", "=", "\"", "]"}

\* parser.Token: the text up to the next delimiter, and that delimiter.
Token(v, x) ==
    LET found(hits) ==
            IF hits = {} THEN [tok |-> From(v, x), c |-> NoDelim, x |-> Len(v)]
            ELSE [tok |-> SubSeq(v, x + 1, Min(hits)), c |-> v[Min(hits) + 1],
                  x |-> Min(hits) + 1]
    IN found({i \in x..(Len(v) - 1) : v[i + 1] \in AttrDelims})

\* parser.ReadEnclosed from the position start, which is past the opening
\* character if the content had one at the read position.
readEnclosedFrom(v, start, closed) ==
    LET found(hits) ==
            IF hits = {} THEN [tok |-> From(v, start), c |-> NoDelim, x |-> Len(v)]
            ELSE [tok |-> SubSeq(v, start + 1, Min(hits)), c |-> closed,
                  x |-> Min(hits) + 1]
    IN found({i \in start..(Len(v) - 1) : v[i + 1] = closed})

\* parser.ReadEnclosed: the text up to the closing character; the other
\* delimiters are not looked at.
ReadEnclosed(v, x, open, closed) ==
    readEnclosedFrom(v, IF x < Len(v) /\ v[x + 1] = open THEN x + 1 ELSE x, closed)

\* "for c != ',' && c != 0 { tok, c = p.Token() }"
RECURSIVE skipAttribute(_, _, _)
skipAttribute(v, x, c) ==
    IF c = "," \/ c = NoDelim THEN [x |-> x, c |-> c]
    ELSE skipAttribute(v, Token(v, x).x, Token(v, x).c)

RECURSIVE blockAttributes(_, _, _, _)

\* The attribute key=tok is stored, then the rest of the attribute, which
\* was read up to position x and delimiter c, is skipped.
attributeStore(v, key, tok, x, c, out) ==
    LET next(k) == blockAttributes(v, k.x, k.c, Append(out, key \o <<"=">> \o tok))
    IN next(skipAttribute(v, x, c))

\* The statements after "key := tok": t is the token read after the "=".
attributeValue(v, key, t, out) ==
    IF t.c = "\""
    THEN LET enclosed(e) == attributeStore(v, key, TrimSpace(e.tok), e.x, e.c, out)
         IN enclosed(ReadEnclosed(v, t.x, "\"", "\""))
    ELSE attributeStore(v, key, TrimSpace(t.tok), t.x, t.c, out)

\* An attribute without a value: the token tok ended at "," or "]".
attributeName(v, tok, x, c, out) ==
    IF c = "]" THEN (IF Len(tok) > 0 THEN Append(out, tok) ELSE out)
    ELSE blockAttributes(v, x, c, IF Len(tok) > 0 THEN Append(out, tok) ELSE out)

\* The body of the loop for the token t just read.
attributeToken(v, t, out) ==
    IF t.c = "," \/ t.c = "]" THEN attributeName(v, TrimSpace(t.tok), t.x, t.c, out)
    ELSE IF t.c # "="
    THEN LET next(k) == blockAttributes(v, k.x, k.c, out)
         IN next(skipAttribute(v, t.x, t.c))
    ELSE attributeValue(v, TrimSpace(t.tok), Token(v, t.x), out)

\* The loop "for c != 0".
blockAttributes(v, x, c, out) ==
    IF c = NoDelim THEN out ELSE attributeToken(v, Token(v, x), out)

\* The attributes as a sequence; the nil slice of Go is the empty sequence.
parseBlockAttribute(in) ==
    LET first(t) == IF t.c # "[" THEN <<>>
                    ELSE IF Len(t.tok) > 0 THEN <<>>
                    ELSE blockAttributes(in, t.x, t.c, <<>>)
    IN first(Token(in, 0))

----------------------------------------------------------------------------
(* Block macros.                                                           *)

\* The "default" branch of parseImage for the attribute at index x >= 3:
\* kv is strings.SplitN(attr, "=", 2).
imageClassOf(key, val) ==
    IF key \in {<<"f", "l", "o", "a", "t">>, <<"a", "l", "i", "g", "n">>,
                <<"r", "o", "l", "e">>} /\ Len(val) > 0
    THEN IF val = <<"c", "e", "n", "t", "e", "r">>
         THEN <<(<<"t", "e", "x", "t", "-", "c", "e", "n", "t", "e", "r">>)>>
         ELSE <<val>>
    ELSE <<>>

imageClass(attr) ==
    IF IndexByte(attr, "=") < 0 THEN <<>>
    ELSE imageClassOf(Upto(attr, IndexByte(attr, "=")),
                      Trim(From(attr, IndexByte(attr, "=") + 1), {"\""}))

RECURSIVE imageClasses(_, _)
imageClasses(attrs, x) ==
    IF x > Len(attrs) THEN <<>>
    ELSE imageClass(attrs[x]) \o imageClasses(attrs, x + 1)

\* The alt text: the first attribute, or the name up to its first dot.
imageAlt(name, alt) ==
    IF Len(alt) = 0 /\ IndexByte(name, ".") > 0
    THEN Upto(name, IndexByte(name, "."))
    ELSE alt

\* parseImage once name and attrs are cut out of the line.
imageFields(nd, name, attrs) ==
    [nd EXCEPT !.raw = nd.raw \o name,
               !.Alt = imageAlt(name, TrimSpace(attrs[1])),
               !.Width = IF Len(attrs) >= 2 THEN attrs[2] ELSE nd.Width,
               !.Height = IF Len(attrs) >= 3 THEN attrs[3] ELSE nd.Height,
               !.classes = nd.classes \o imageClasses(attrs, 4)]

\* ok is FALSE when the slice line[attrBegin+1:attrEnd] is out of range.
imageAt(nd, line, attrBegin, attrEnd) ==
    IF attrBegin < 0 \/ attrEnd < 0 THEN [ok |-> TRUE, v |-> FALSE, nd |-> nd]
    ELSE IF attrEnd < attrBegin + 1 THEN [ok |-> FALSE, v |-> FALSE, nd |-> nd]
    ELSE [ok |-> TRUE, v |-> TRUE,
          nd |-> imageFields(nd, TrimRight(Upto(line, attrBegin), {SP, TAB}),
                             Split(SubSeq(line, attrBegin + 2, attrEnd), ","))]

nodeParseImage(nd, line) == imageAt(nd, line, IndexByte(line, "["), IndexByte(line, "]"))

\* The attribute and option names of audio and video blocks.
attrNameEnd == <<"e", "n", "d">>
attrNameHeight == <<"h", "e", "i", "g", "h", "t">>
attrNameLang == <<"l", "a", "n", "g">>
attrNameOptions == <<"o", "p", "t", "i", "o", "n", "s">>
attrNamePoster == <<"p", "o", "s", "t", "e", "r">>
attrNameSrc == <<"s", "r", "c">>
attrNameStart == <<"s", "t", "a", "r", "t">>
attrNameTheme == <<"t", "h", "e", "m", "e">>
attrNameVimeo == <<"v", "i", "m", "e", "o">>
attrNameWidth == <<"w", "i", "d", "t", "h">>
attrNameYoutube == <<"y", "o", "u", "t", "u", "b", "e">>
attrNameYoutubeLang == <<"h", "l">>
optNameAutoplay == <<"a", "u", "t", "o", "p", "l", "a", "y">>
optNameControls == <<"c", "o", "n", "t", "r", "o", "l", "s">>
optNameLoop == <<"l", "o", "o", "p">>
optNameNocontrols == <<"n", "o", "c", "o", "n", "t", "r", "o", "l", "s">>
optVideoFullscreen == <<"f", "s">>
optVideoModest == <<"m", "o", "d", "e", "s", "t">>
optVideoNofullscreen == <<"n", "o", "f", "u", "l", "l", "s", "c", "r", "e", "e", "n">>
optVideoPlaylist == <<"p", "l", "a", "y", "l", "i", "s", "t">>
optVideoYoutubeModestbranding == <<"m", "o", "d", "e", "s", "t", "b", "r", "a", "n", "d", "i", "n", "g">>

\* "key = strings.ToLower(kv[0])" for kv = strings.Split(attr, "=").
attrKey(attr) == ToLower(Split(attr, "=")[1])

\* "if len(kv) >= 2 { val = kv[1] } else { val = "1" }"
attrVal(attr) == IF Len(Split(attr, "=")) >= 2 THEN Split(attr, "=")[2] ELSE <<"1">>

\* "node.Attrs[key] = val"
setAttr(nd, key, val) == [nd EXCEPT !.Attrs = (key :> val) @@ @]

\* "node.Opts[key] = val"
setOpt(nd, key, val) == [nd EXCEPT !.Opts = (key :> val) @@ @]

\* The options of an audio block, from the option at index x on.
RECURSIVE audioOptions(_, _, _)
audioOptions(nd, opts, x) ==
    IF x > Len(opts) THEN nd
    ELSE IF opts[x] = optNameNocontrols
    THEN audioOptions(setOpt(nd, optNameControls, <<"0">>), opts, x + 1)
    ELSE IF opts[x] = optNameControls
    THEN audioOptions(setOpt(nd, optNameControls, <<"1">>), opts, x + 1)
    ELSE audioOptions(setOpt(nd, opts[x], <<"1">>), opts, x + 1)

\* The body of the loop of parseBlockAudio for one attribute.
audioAttribute(nd, key, val) ==
    IF key = attrNameOptions
    THEN audioOptions([setAttr(nd, key, val) EXCEPT !.Opts = optNameControls :> <<"1">>],
                      Split(val, ","), 1)
    ELSE nd

RECURSIVE audioAttributes(_, _, _)
audioAttributes(nd, attrs, x) ==
    IF x > Len(attrs) THEN nd
    ELSE audioAttributes(audioAttribute(nd, attrKey(attrs[x]), attrVal(attrs[x])),
                         attrs, x + 1)

\* ok is FALSE when the slice line[attrBegin:attrEnd+1] is out of range.
audioAt(nd, line, attrBegin, attrEnd) ==
    IF attrBegin < 0 \/ attrEnd < 0 THEN [ok |-> TRUE, v |-> FALSE, nd |-> nd]
    ELSE IF attrEnd + 1 < attrBegin THEN [ok |-> FALSE, v |-> FALSE, nd |-> nd]
    ELSE [ok |-> TRUE, v |-> TRUE,
          nd |-> audioAttributes(
                     [nd EXCEPT !.Attrs = attrNameSrc :>
                                             TrimRight(Upto(line, attrBegin), {SP, TAB})],
                     parseBlockAttribute(SubSeq(line, attrBegin + 1, attrEnd + 1)), 1)]

nodeParseBlockAudio(nd, line) ==
    audioAt(nd, line, IndexByte(line, "["), IndexByte(line, "]"))

\* The body of the loop of parseVideo for the attribute at index x (from 0).
videoAttribute(nd, x, key, val) ==
    IF x = 0 /\ key \in {attrNameYoutube, attrNameVimeo} THEN setAttr(nd, key, val)
    ELSE IF key = attrNameWidth THEN [nd EXCEPT !.Width = val]
    ELSE IF key = attrNameHeight THEN [nd EXCEPT !.Height = val]
    ELSE IF key \in {attrNameOptions, attrNamePoster, attrNameStart, attrNameEnd,
                     attrNameTheme, attrNameLang}
    THEN setAttr(nd, key, val)
    ELSE nd

RECURSIVE videoAttributes(_, _, _)
videoAttributes(nd, attrs, x) ==
    IF x >= Len(attrs) THEN nd
    ELSE videoAttributes(
             videoAttribute(nd, x, attrKey(attrs[x + 1]), attrVal(attrs[x + 1])),
             attrs, x + 1)

\* ok is FALSE when the slice line[attrBegin:attrEnd+1] is out of range.
videoAt(nd, line, attrBegin, attrEnd) ==
    IF attrBegin < 0 \/ attrEnd < 0 THEN [ok |-> TRUE, v |-> FALSE, nd |-> nd]
    ELSE IF attrEnd + 1 < attrBegin THEN [ok |-> FALSE, v |-> FALSE, nd |-> nd]
    ELSE [ok |-> TRUE, v |-> TRUE,
          nd |-> videoAttributes(
                     setAttr(nd, attrNameSrc, TrimRight(Upto(line, attrBegin), {SP, TAB})),
                     parseBlockAttribute(SubSeq(line, attrBegin + 1, attrEnd + 1)), 0)]

nodeParseVideo(nd, line) ==
    videoAt(nd, line, IndexByte(line, "["), IndexByte(line, "]"))

----------------------------------------------------------------------------
(* Call frames.  A frame holds the locals of one activation; the top frame *)
(* is the running one.                                                     *)

Frame(fn) ==
    [fn |-> fn, parent |-> NIL, list |-> NIL, listItem |-> NIL, node |-> NIL,
     term |-> 0, state |-> 0, spaces |-> <<>>, line |-> <<>>, c |-> 0]

Top(s) == s.stack[Len(s.stack)]

SetTop(s, f) == [s EXCEPT !.stack[Len(s.stack)] = f]

Push(s, f) == [s EXCEPT !.stack = Append(s.stack, f)]

Pop(s) == [s EXCEPT !.stack = SubSeq(s.stack, 1, Len(s.stack) - 1)]

\* The top frame goes on with (line, c): the "continue" of a parser loop.
Continue(s, f, line, c) == SetTop(s, [f EXCEPT !.line = line, !.c = c])

\* The top frame goes on with the line a callee or consumeLinesUntil gave.
ContinueWith(r, f) == Continue(r.s, f, r.line, r.c)

\* callList without "list.level = listItem.level".
callList_noLevel(s, fn, parent, list, item) ==
    Push([s EXCEPT !.n = addChild(addChild(s.n \o <<list, item>>,
                                           NextId(s), NextId(s) + 1),
                                  parent, NextId(s))],
         [Frame(fn) EXCEPT !.parent = parent, !.list = NextId(s),
                           !.listItem = NextId(s) + 1])

\* The list container and its first item, as the three list parsers build
\* them before their loop, and the frame of the new activation.
callList(s, fn, parent, list, item) ==
    Push([s EXCEPT !.n = addChild(
                             addChild(s.n \o <<[list EXCEPT !.level = item.level], item>>,
                                      NextId(s), NextId(s) + 1),
                             parent, NextId(s))],
         [Frame(fn) EXCEPT !.parent = parent, !.list = NextId(s),
                           !.listItem = NextId(s) + 1])

callListOrdered(s, parent, title, line) ==
    callList(s, "parseListOrdered", parent,
             [newAdocNode(nodeKindListOrdered) EXCEPT !.rawTitle = title],
             nodeParseListOrdered(newAdocNode(nodeKindListOrderedItem), line))

callListUnordered(s, parent, line) ==
    callList(s, "parseListUnordered", parent,
             [newAdocNode(nodeKindListUnordered) EXCEPT
                 !.rawTitle = s.n[s.d.nodeCurrent].rawTitle],
             nodeParseListUnordered(newAdocNode(nodeKindListUnorderedItem), line))

\* callListDescription without "style: list.style" for the first item.
callListDescription_noItemStyle(s, parent, line) ==
    callList(s, "parseListDescription", parent,
             [newAdocNode(nodeKindListDescription) EXCEPT
                 !.rawTitle = s.n[s.d.nodeCurrent].rawTitle,
                 !.style = s.n[s.d.nodeCurrent].style],
             nodeParseListDescription(newAdocNode(nodeKindListDescriptionItem), line))

callListDescription(s, parent, line) ==
    callList(s, "parseListDescription", parent,
             [newAdocNode(nodeKindListDescription) EXCEPT
                 !.rawTitle = s.n[s.d.nodeCurrent].rawTitle,
                 !.style = s.n[s.d.nodeCurrent].style],
             nodeParseListDescription(
                 [newAdocNode(nodeKindListDescriptionItem) EXCEPT
                     !.style = s.n[s.d.nodeCurrent].style],
                 line))

callBlock(s, parent, term) ==
    Push(Alloc(s, newAdocNode(nodeKindUnknown)),
         [Frame("parseBlock") EXCEPT !.parent = parent, !.term = term,
                                    !.node = NextId(s)])

callListBlock(s) == Push(s, Frame("parseListBlock"))

\* "parent.addChild(node); node = &adocNode{}" of parseBlock, with the
\* frame going on with (line, c).
blockAddNode(s, f, line, c) ==
    SetTop(Alloc([s EXCEPT !.n = addChild(s.n, f.parent, f.node)],
                 newAdocNode(nodeKindUnknown)),
           [f EXCEPT !.node = NextId(s), !.line = line, !.c = c])

\* The caller f of a list parser gets (line, c): its statements after the
\* call, up to its "continue".
listReturned(s, f, line, c) ==
    IF f.fn = "Parse" THEN Continue(terminateCurrentNode(s), f, line, c)
    ELSE IF f.fn = "parseBlock" THEN blockAddNode(s, f, line, c)
    ELSE Continue(s, f, line, c)

\* A list parser returns (line, c).
returnList(s, line, c) == listReturned(Pop(s), Top(Pop(s)), line, c)

\* The list parser f gets (node, line, c) from parseListBlock.
listBlockReturned(s, f, node, line, c) ==
    Continue(IF node # NIL THEN [s EXCEPT !.n = addChild(s.n, f.listItem, node)]
             ELSE s,
             f, line, c)

\* parseListBlock returns (node, line, c) to a list parser.
returnListBlock(s, node, line, c) ==
    listBlockReturned(Pop(s), Top(Pop(s)), node, line, c)

\* The return of parseBlock without "doc.terminateCurrentNode()" in Parse.
returnBlock_noTerminate(s) == Continue(Pop(s), Top(Pop(s)), <<>>, Top(Pop(s)).c)

\* parseBlock returns to Parse.
returnBlock(s) ==
    Continue(terminateCurrentNode(Pop(s)), Top(Pop(s)), <<>>, Top(Pop(s)).c)

\* Parse after parseHeader returned: the preamble becomes the parent and a
\* new pending node is made; s holds the preamble as its last node.
enterBody(s, spaces, line, c) ==
    SetTop(newNodeCurrent([s EXCEPT !.n = addChild(s.n, s.d.content, LastId(s)),
                                    !.d.nodeParent = LastId(s)]),
           [Top(s) EXCEPT !.spaces = spaces, !.line = line, !.c = c])

\* parseHeader returns (spaces, line, c) to Parse.
returnHeader(s, spaces, line, c) ==
    enterBody(Alloc(Pop(s), newAdocNode(nodeKindPreamble)), spaces, line, c)

----------------------------------------------------------------------------
(* The header parser: one iteration of its loop.                           *)

stateTitle == 0
stateAuthor == 1
stateRevision == 2
stateEnd == 3

\* The title case once isTitle accepted the line.
headerTitle(s, f, raw) ==
    SetTop([Alloc(s, [newAdocNode(nodeKindDocHeader) EXCEPT !.raw = raw])
               EXCEPT !.d.header = NextId(s), !.d.Title = raw],
           [f EXCEPT !.state = stateAuthor])

\* The revision case once parseHeaderRevision gave r.
headerRevision(s, f, r, spaces, line, c) ==
    IF ~r.v THEN returnHeader(s, spaces, line, c)
    ELSE SetTop(r.s, [f EXCEPT !.state = stateEnd])

\* "switch state"
parseHeaderState(s, f, spaces, line, c) ==
    IF f.state = stateTitle
    THEN IF ~isTitle(line).ok THEN Panic(s)
         ELSE IF ~isTitle(line).v THEN returnHeader(s, spaces, line, c)
         ELSE headerTitle(s, f, TrimSpace(From(line, 2)))
    ELSE IF f.state = stateAuthor
    THEN SetTop([s EXCEPT !.d.Author = line], [f EXCEPT !.state = stateRevision])
    ELSE IF f.state = stateRevision
    THEN headerRevision(s, f, parseHeaderRevision(s, line), spaces, line, c)
    ELSE returnHeader(s, spaces, line, c)

\* The attribute case once parseAttribute gave a.
headerAttribute(s, f, a, spaces, line, c) ==
    IF ~a.ok THEN Panic(s)
    ELSE IF a.v THEN a.s
    ELSE IF f.state # stateTitle THEN returnHeader(s, spaces, line, c)
    ELSE parseHeaderState(s, f, spaces, line, c)

\* The body of the loop for the line just read.
parseHeaderLine(s, f, spaces, line, c) ==
    IF Len(line) = 0 /\ c = 0 THEN returnHeader(s, spaces, <<>>, 0)
    ELSE IF Len(line) = 0
    THEN IF f.state = stateTitle THEN s ELSE returnHeader(s, spaces, line, c)
    ELSE IF HasPrefix(line, <<"/", "/", "/", "/">>) THEN parseIgnoreCommentBlock(s)
    ELSE IF HasPrefix(line, <<"/", "/">>) THEN s
    ELSE IF line[1] = ":"
    THEN headerAttribute(s, f, parseAttribute(s, line, FALSE), spaces, line, c)
    ELSE parseHeaderState(s, f, spaces, line, c)

parseHeaderRead(f, r) == parseHeaderLine(r.s, f, r.spaces, r.line, r.c)

parseHeader(s) == parseHeaderRead(Top(s), docLine(s))

----------------------------------------------------------------------------
(* The body parser: one iteration of the loop of Parse.                    *)

ParagraphTerms ==
    {nodeKindBlockListingDelimiter, nodeKindBlockLiteralDelimiter,
     nodeKindBlockLiteralNamed, lineKindListContinue}

LiteralTerms ==
    {nodeKindBlockListingDelimiter, nodeKindBlockLiteralDelimiter,
     nodeKindBlockLiteralNamed}

SectionKinds ==
    {nodeKindSectionL1, nodeKindSectionL2, nodeKindSectionL3, nodeKindSectionL4,
     nodeKindSectionL5}

\* "if doc.nodeCurrent.kind != nodeKindUnknown { doc.terminateCurrentNode() }"
terminateIfOpen(s) ==
    IF s.n[s.d.nodeCurrent].kind # nodeKindUnknown THEN terminateCurrentNode(s) ELSE s

\* The pending node gets its kind and first text, then takes the following
\* lines up to an empty line or a line of one of the kinds in terms.
openAndConsume(s, kind, text, terms) ==
    consumeLinesUntil([s EXCEPT !.n[s.d.nodeCurrent].kind = kind,
                                !.n[s.d.nodeCurrent].raw = @ \o text \o <<LF>>],
                      s.d.nodeCurrent, lineKindEmpty, terms)

\* "doc.terminateCurrentNode()" after consumeLinesUntil gave r; the frame
\* goes on with the line it returned.
terminateAndContinue(r, f) == Continue(terminateCurrentNode(r.s), f, r.line, r.c)

\* The same when the end of the switch is reached: 'line = ""'.
terminateAndDrop(r, f) == Continue(terminateCurrentNode(r.s), f, <<>>, r.c)

\* The section case without the walk: the section stays under doc.nodeParent.
sectionParent_noWalk(n, content, p, expParent) == p

\* The section case with a test of doc.nodeParent alone in place of the walk.
sectionParent_oneLevel(n, content, p, expParent) ==
    IF n[p].kind = expParent THEN p ELSE content

\* The walk "for doc.nodeParent.kind != expParent" of the section case.
RECURSIVE sectionParent(_, _, _, _)
sectionParent(n, content, p, expParent) ==
    IF n[p].kind = expParent THEN p
    ELSE IF n[p].parent = NIL THEN content
    ELSE sectionParent(n, content, n[p].parent, expParent)

\* sectionAdd without "doc.nodeParent = doc.nodeCurrent".
sectionAdd_keepParent(s, f) ==
    Continue(newNodeCurrent(
                 [s EXCEPT !.n = addChild(s.n,
                                     sectionParent(s.n, s.d.content, s.d.nodeParent,
                                                   s.d.kind - 1),
                                     s.d.nodeCurrent)]),
             f, <<>>, f.c)

\* The section case once the pending node has its kind and title: it is
\* added to the parent the walk finds and becomes the parent itself.
sectionAdd(s, f) ==
    Continue(newNodeCurrent(
                 [s EXCEPT !.n = addChild(s.n,
                                     sectionParent(s.n, s.d.content, s.d.nodeParent,
                                                   s.d.kind - 1),
                                     s.d.nodeCurrent),
                           !.d.nodeParent = s.d.nodeCurrent]),
             f, <<>>, f.c)

\* The section case after "if doc.nodeCurrent.kind != nodeKindUnknown".
sectionOpen(s, f) ==
    sectionAdd([s EXCEPT !.n[s.d.nodeCurrent].kind = s.d.kind,
                         !.n[s.d.nodeCurrent].raw = @ \o TrimLeft(f.line, {"=", SP, TAB})],
               f)

parseSection(s, f) == sectionOpen(terminateIfOpen(s), f)

\* The image, video and audio cases once the node parser gave r; prefix is
\* the macro name that whatKindOfLine cut off.
macroParsed(s, f, r, prefix) ==
    IF ~r.ok THEN Panic(s)
    ELSE IF r.v
    THEN Continue(terminateCurrentNode(
                      [s EXCEPT !.n[s.d.nodeCurrent] = [r.nd EXCEPT !.kind = s.d.kind]]),
                  f, <<>>, f.c)
    ELSE Continue([s EXCEPT !.n[s.d.nodeCurrent].kind = nodeKindParagraph,
                            !.n[s.d.nodeCurrent].raw = @ \o prefix \o f.line \o <<LF>>],
                  f, <<>>, f.c)

\* The style line once parseStyle gave st, for the node nd.
styledNode(nd, st) ==
    IF isStyleAdmonition(st.styleKind)
    THEN setStyleAdmonition([nd EXCEPT !.style = BitOr(@, st.styleKind)],
                            st.styleName, st.styleKind)
    ELSE [nd EXCEPT !.style = BitOr(@, st.styleKind)]

\* The style case for the node with the given id.
styleCase(s, f, node, st) ==
    IF st.styleKind # styleNone
    THEN Continue([s EXCEPT !.n[node] = styledNode(@, st)], f, <<>>, f.c)
    ELSE Continue(s, f, <<>>, f.c)

\* The attribute case once parseAttribute gave a.
attributeCase(s, f, a) ==
    IF ~a.ok THEN Panic(s)
    ELSE IF a.v THEN Continue(terminateCurrentNode(a.s), f, <<>>, f.c)
    ELSE IF s.n[s.d.nodeCurrent].kind # nodeKindUnknown
    THEN Continue([s EXCEPT !.n[s.d.nodeCurrent].raw = @ \o f.line], f, <<>>, f.c)
    ELSE Continue(s, f, <<>>, f.c)

\* The horizontal rule and page break cases after the pending node, if
\* any, was terminated.
ruleCase(s, f) ==
    Continue(terminateCurrentNode([s EXCEPT !.n[s.d.nodeCurrent].kind = s.d.kind]),
             f, <<>>, f.c)

\* "switch doc.kind"
parseDispatch(s, f) ==
    CASE s.d.kind = lineKindEmpty -> SetTop(terminateIfOpen(s), f)
      [] s.d.kind = lineKindBlockComment ->
             Continue(parseIgnoreCommentBlock(s), f, <<>>, f.c)
      [] s.d.kind = lineKindComment -> Continue(s, f, <<>>, f.c)
      [] s.d.kind \in {lineKindHorizontalRule, lineKindPageBreak} ->
             ruleCase(terminateIfOpen(s), f)
      [] s.d.kind = lineKindAttribute ->
             attributeCase(s, f, parseAttribute(s, f.line, TRUE))
      [] s.d.kind = lineKindStyle ->
             styleCase(s, f, s.d.nodeCurrent, parseStyle(f.line))
      [] s.d.kind = lineKindStyleClass ->
             Continue([s EXCEPT !.n[s.d.nodeCurrent] = nodeParseStyleClass(@, f.line)],
                      f, <<>>, f.c)
      [] s.d.kind \in {lineKindText, lineKindListContinue} ->
             IF s.n[s.d.nodeCurrent].kind = nodeKindUnknown
             THEN terminateAndContinue(
                      openAndConsume(s, nodeKindParagraph, f.line, ParagraphTerms), f)
             ELSE Continue([s EXCEPT !.n[s.d.nodeCurrent].raw = @ \o f.line],
                           f, <<>>, f.c)
      [] s.d.kind = lineKindBlockTitle ->
             Continue([s EXCEPT !.n[s.d.nodeCurrent].rawTitle = From(f.line, 1)],
                      f, <<>>, f.c)
      [] s.d.kind = lineKindAdmonition ->
             terminateAndContinue(
                 consumeLinesUntil(
                     [s EXCEPT !.n[s.d.nodeCurrent] =
                         nodeParseLineAdmonition([@ EXCEPT !.kind = lineKindAdmonition],
                                                 f.line)],
                     s.d.nodeCurrent, lineKindEmpty, ParagraphTerms), f)
      [] s.d.kind \in SectionKinds -> parseSection(s, f)
      [] s.d.kind = nodeKindLiteralParagraph ->
             IF s.n[s.d.nodeCurrent].kind = nodeKindUnknown
                /\ IsStyleAdmonition(s.n[s.d.nodeCurrent])
             THEN terminateAndDrop(
                      openAndConsume(s, nodeKindParagraph, f.spaces \o f.line,
                                     ParagraphTerms), f)
             ELSE terminateAndDrop(
                      openAndConsume(s, s.d.kind, f.spaces \o f.line, LiteralTerms), f)
      [] s.d.kind \in {nodeKindBlockLiteralDelimiter, nodeKindBlockListingDelimiter} ->
             terminateAndDrop(
                 consumeLinesUntil([s EXCEPT !.n[s.d.nodeCurrent].kind = s.d.kind],
                                   s.d.nodeCurrent, s.d.kind, {}), f)
      [] s.d.kind = nodeKindBlockLiteralNamed ->
             terminateAndDrop(
                 consumeLinesUntil([s EXCEPT !.n[s.d.nodeCurrent].kind = s.d.kind],
                                   s.d.nodeCurrent, lineKindEmpty, {}), f)
      [] s.d.kind = nodeKindListOrderedItem ->
             callListOrdered(SetTop(s, f), s.d.nodeParent,
                             s.n[s.d.nodeCurrent].rawTitle, f.line)
      [] s.d.kind = nodeKindListUnorderedItem ->
             callListUnordered(SetTop(s, f), s.d.nodeParent, f.line)
      [] s.d.kind = nodeKindListDescriptionItem ->
             callListDescription(SetTop(s, f), s.d.nodeParent, f.line)
      [] s.d.kind = nodeKindBlockImage ->
             LET parsed(s1) == macroParsed(s1, f,
                                   nodeParseImage(s1.n[s1.d.nodeCurrent], f.line),
                                   <<"i", "m", "a", "g", "e", ":", ":">>)
             IN parsed(terminateIfOpen(s))
      [] s.d.kind = nodeKindBlockVideo ->
             LET parsed(s1) == macroParsed(s1, f,
                                   nodeParseVideo(s1.n[s1.d.nodeCurrent], f.line),
                                   <<"v", "i", "d", "e", "o", ":", ":">>)
             IN parsed(terminateIfOpen(s))
      [] s.d.kind = nodeKindBlockAudio ->
             LET parsed(s1) == macroParsed(s1, f,
                                   nodeParseBlockAudio(s1.n[s1.d.nodeCurrent], f.line),
                                   <<"a", "u", "d", "i", "o", ":", ":">>)
             IN parsed(terminateIfOpen(s))
      [] s.d.kind \in {nodeKindBlockOpen, nodeKindBlockExample} ->
             callBlock(SetTop([s EXCEPT !.n[s.d.nodeCurrent].kind = s.d.kind], f),
                       s.d.nodeCurrent, s.d.kind)
      [] OTHER -> Continue(s, f, <<>>, f.c)

\* The head of the loop when no line is pending: r is the line read.
parseRead(f, r) ==
    IF AtEnd(r) THEN [r.s EXCEPT !.pc = "done"]
    ELSE parseDispatch(r.s, [f EXCEPT !.spaces = r.spaces, !.line = r.line, !.c = r.c])

\* One iteration: read a line when none is pending, return at the end of
\* the content, else dispatch on doc.kind.
Parse(s) ==
    IF Len(Top(s).line) = 0 THEN parseRead(Top(s), docLine(s))
    ELSE parseDispatch(s, Top(s))

----------------------------------------------------------------------------
(* The three list parsers: one iteration of the loop of each.              *)

\* "for parentListItem != nil": TRUE when parent or one of its ancestors has
\* the given kind and level.
RECURSIVE hasParentListItem(_, _, _, _)
hasParentListItem(n, p, kind, level) ==
    IF p = NIL THEN FALSE
    ELSE IF n[p].kind = kind /\ n[p].level = level THEN TRUE
    ELSE hasParentListItem(n, n[p].parent, kind, level)

\* An item of the parser's own kind and of the current item's level joins
\* the container and becomes the current item.
listAddItem(s, f, item) ==
    SetTop([s EXCEPT !.n = addChild(Append(s.n, item), f.list, NextId(s))],
           [f EXCEPT !.listItem = NextId(s), !.line = <<>>])

\* The "[literal]" case once consumeLinesUntil gave r for the new node.
listLiteralAdd(r, f, node) ==
    Continue([r.s EXCEPT !.n = addChild(r.s.n, f.listItem, node)], f, r.line, r.c)

\* The "[literal]" case inside a list.
listLiteralNamed(s, f) ==
    listLiteralAdd(consumeLinesUntil(Alloc(s, newAdocNode(s.d.kind)), NextId(s),
                                     lineKindEmpty,
                                     {nodeKindListOrderedItem, nodeKindListUnorderedItem}),
                   f, NextId(s))

\* The last statements of the loop: the line is text of the current item.
listAppendRaw(s, f) ==
    Continue([s EXCEPT !.n[f.listItem].raw = @ \o TrimSpace(f.line) \o <<LF>>],
             f, <<>>, f.c)

\* The cases after the list-item cases, shared by the three parsers except
\* for the admonition check, which parseListDescription does not have.
listTail(s, f, checkAdmonition) ==
    IF checkAdmonition /\ s.d.kind = lineKindAdmonition /\ s.d.prevKind = lineKindEmpty
    THEN returnList(s, f.line, f.c)
    ELSE IF s.d.kind = lineKindText /\ s.d.prevKind = lineKindEmpty
    THEN returnList(s, f.line, f.c)
    ELSE IF s.d.kind = nodeKindBlockLiteralNamed
    THEN IF s.d.prevKind = lineKindEmpty THEN returnList(s, f.line, f.c)
         ELSE listLiteralNamed(s, f)
    ELSE IF s.d.kind \in {nodeKindBlockListingDelimiter, nodeKindBlockExample}
    THEN returnList(s, f.line, f.c)
    ELSE IF s.d.kind \in SectionKinds /\ s.d.prevKind = lineKindEmpty
    THEN returnList(s, f.line, f.c)
    ELSE listAppendRaw(s, f)

\* listOwnItem without the walk over the ancestors.
listOwnItem_noSearch(s, f, node, nested) ==
    IF s.n[f.listItem].level = node.level THEN listAddItem(s, f, node) ELSE nested

\* An item of the parser's own kind: it joins the container when its level
\* is the current item's, goes back to an ancestor of that kind and level
\* when there is one, and else opens a nested list under the current item.
listOwnItem(s, f, node, nested) ==
    IF s.n[f.listItem].level = node.level THEN listAddItem(s, f, node)
    ELSE IF hasParentListItem(s.n, f.parent, s.d.kind, node.level)
    THEN returnList(s, f.line, f.c)
    ELSE nested

\* An item of another kind, in the parsers that search the ancestors for it.
listOtherItem(s, f, node, nested) ==
    IF hasParentListItem(s.n, f.parent, s.d.kind, node.level)
    THEN returnList(s, f.line, f.c)
    ELSE nested

\* The cases every list parser starts with; rest is the parser's own part.
listHead(s, f, rest) ==
    IF s.d.kind = lineKindBlockComment
    THEN Continue(parseIgnoreCommentBlock(s), f, <<>>, f.c)
    ELSE IF s.d.kind = lineKindComment THEN Continue(s, f, <<>>, f.c)
    ELSE IF s.d.kind = lineKindListContinue THEN callListBlock(SetTop(s, f))
    ELSE IF s.d.kind = lineKindEmpty THEN SetTop(s, f)
    ELSE IF s.d.kind = lineKindStyle /\ s.d.prevKind = lineKindEmpty
    THEN returnList(s, f.line, f.c)
    ELSE rest

parseListOrderedDispatch(s, f) ==
    listHead(s, f,
        IF s.d.kind = nodeKindListOrderedItem
        THEN listOwnItem(s, f,
                 nodeParseListOrdered(newAdocNode(nodeKindListOrderedItem), f.line),
                 callListOrdered(SetTop(s, f), f.listItem, <<>>, f.line))
        ELSE IF s.d.kind = nodeKindListUnorderedItem
        THEN listOtherItem(s, f,
                 nodeParseListUnordered(newAdocNode(nodeKindListUnorderedItem), f.line),
                 callListUnordered(SetTop(s, f), f.listItem, f.line))
        ELSE IF s.d.kind = nodeKindListDescriptionItem
        THEN listOtherItem(s, f,
                 nodeParseListDescription(newAdocNode(s.d.kind), f.line),
                 callListDescription(SetTop(s, f), f.listItem, f.line))
        ELSE listTail(s, f, TRUE))

parseListUnorderedDispatch(s, f) ==
    listHead(s, f,
        IF s.d.kind = nodeKindListOrderedItem
        THEN listOtherItem(s, f,
                 nodeParseListOrdered(newAdocNode(nodeKindListOrderedItem), f.line),
                 callListOrdered(SetTop(s, f), f.listItem, <<>>, f.line))
        ELSE IF s.d.kind = nodeKindListUnorderedItem
        THEN listOwnItem(s, f,
                 nodeParseListUnordered(newAdocNode(nodeKindListUnorderedItem), f.line),
                 callListUnordered(SetTop(s, f), f.listItem, f.line))
        ELSE IF s.d.kind = nodeKindListDescriptionItem
        THEN listOtherItem(s, f,
                 nodeParseListDescription(newAdocNode(s.d.kind), f.line),
                 callListDescription(SetTop(s, f), f.listItem, f.line))
        ELSE listTail(s, f, TRUE))

parseListDescriptionDispatch(s, f) ==
    listHead(s, f,
        IF s.d.kind = nodeKindListOrderedItem
        THEN callListOrdered(SetTop(s, f), f.listItem, <<>>, f.line)
        ELSE IF s.d.kind = nodeKindListUnorderedItem
        THEN callListUnordered(SetTop(s, f), f.listItem, f.line)
        ELSE IF s.d.kind = nodeKindListDescriptionItem
        THEN listOwnItem(s, f,
                 nodeParseListDescription(
                     [newAdocNode(nodeKindListDescriptionItem) EXCEPT
                         !.style = s.n[f.list].style], f.line),
                 callListDescription(SetTop(s, f), f.listItem, f.line))
        ELSE listTail(s, f, FALSE))

\* The head of the loop of a list parser when no line is pending: r is the
\* line read; the loop is left at the end of the content.
listRead(f, r, dispatch(_, _)) ==
    IF AtEnd(r) THEN returnList(r.s, <<>>, 0)
    ELSE dispatch(r.s, [f EXCEPT !.line = r.line, !.c = r.c])

listLoop(s, dispatch(_, _)) ==
    IF Len(Top(s).line) = 0 THEN listRead(Top(s), docLine(s), dispatch)
    ELSE dispatch(s, Top(s))

parseListOrdered(s) == listLoop(s, parseListOrderedDispatch)

parseListUnordered(s) == listLoop(s, parseListUnorderedDispatch)

parseListDescription(s) == listLoop(s, parseListDescriptionDispatch)

----------------------------------------------------------------------------
(* The block sub-parser (open and example blocks): one iteration.          *)

\* "if node.kind != nodeKindUnknown { parent.addChild(node); node = &adocNode{} }"
blockAddIfOpen(s, f) ==
    IF s.n[f.node].kind # nodeKindUnknown THEN blockAddNode(s, f, f.line, f.c)
    ELSE SetTop(s, f)

blockTerms(term) == {term} \cup ParagraphTerms

\* The node is added to the block once consumeLinesUntil gave r; the line
\* it returned is pending.
blockAddAndContinue(r, f) == blockAddNode(r.s, f, r.line, r.c)

\* The same when the end of the switch is reached: 'line = ""'.
blockAddAndDrop(r, f) == blockAddNode(r.s, f, <<>>, r.c)

\* node becomes a paragraph that starts with text and takes the following
\* lines.
blockParagraph(s, f, text) ==
    consumeLinesUntil([s EXCEPT !.n[f.node].kind = nodeKindParagraph,
                                !.n[f.node].raw = @ \o text \o <<LF>>],
                      f.node, lineKindEmpty, blockTerms(f.term))

blockTextOrAppend(s, f) ==
    IF s.n[f.node].kind = nodeKindUnknown
    THEN blockAddAndContinue(blockParagraph(s, f, f.line), f)
    ELSE Continue([s EXCEPT !.n[f.node].raw = @ \o f.line], f, <<>>, f.c)

\* The attribute case once parseAttribute gave a.
blockAttribute(s, f, a) ==
    IF ~a.ok THEN Panic(s)
    ELSE IF a.v THEN Continue(a.s, f, <<>>, f.c)
    ELSE blockTextOrAppend(s, f)

\* The horizontal rule case after "if node.kind != nodeKindUnknown".
blockRule(s) ==
    blockAddNode([s EXCEPT !.n[Top(s).node].kind = s.d.kind], Top(s), <<>>, Top(s).c)

\* The page break case after "if doc.nodeCurrent.kind != nodeKindUnknown":
\* the kind goes to doc.nodeCurrent, the node is added as it is.
blockPageBreak(s) ==
    blockAddNode([s EXCEPT !.n[s.d.nodeCurrent].kind = s.d.kind], Top(s), <<>>, Top(s).c)

\* The image case once the node parser gave r for the node of the frame.
blockImageParsed(s, r) ==
    IF ~r.ok THEN Panic(s)
    ELSE IF r.v
    THEN blockAddNode([s EXCEPT !.n[Top(s).node] = [r.nd EXCEPT !.kind = s.d.kind]],
                      Top(s), <<>>, Top(s).c)
    ELSE blockAddAndDrop(
             blockParagraph(s, Top(s), <<"i", "m", "a", "g", "e", ":", ":">> \o Top(s).line),
             Top(s))

\* The image case after "if node.kind != nodeKindUnknown".
blockImage(s) == blockImageParsed(s, nodeParseImage(s.n[Top(s).node], Top(s).line))

\* "switch doc.kind"
parseBlockDispatch(s, f) ==
    CASE s.d.kind = lineKindEmpty -> blockAddIfOpen(s, f)
      [] s.d.kind = lineKindBlockComment ->
             Continue(parseIgnoreCommentBlock(s), f, <<>>, f.c)
      [] s.d.kind = lineKindComment -> Continue(s, f, <<>>, f.c)
      [] s.d.kind = lineKindHorizontalRule -> blockRule(blockAddIfOpen(s, f))
      [] s.d.kind = lineKindPageBreak ->
             blockPageBreak(IF s.n[s.d.nodeCurrent].kind # nodeKindUnknown
                            THEN blockAddNode(s, f, f.line, f.c)
                            ELSE SetTop(s, f))
      [] s.d.kind = lineKindAttribute ->
             blockAttribute(s, f, parseAttribute(s, f.line, TRUE))
      [] s.d.kind = lineKindStyle -> styleCase(s, f, f.node, parseStyle(f.line))
      [] s.d.kind = lineKindStyleClass ->
             Continue([s EXCEPT !.n[f.node] = nodeParseStyleClass(@, f.line)],
                      f, <<>>, f.c)
      [] s.d.kind \in {lineKindText, lineKindListContinue} \cup SectionKinds ->
             blockTextOrAppend(s, f)
      [] s.d.kind = lineKindBlockTitle ->
             Continue([s EXCEPT !.n[f.node].rawTitle = From(f.line, 1)], f, <<>>, f.c)
      [] s.d.kind = nodeKindLiteralParagraph ->
             blockAddAndContinue(
                 consumeLinesUntil(
                     [s EXCEPT !.n[f.node].kind = s.d.kind,
                               !.n[f.node].raw = @ \o f.spaces \o f.line \o <<LF>>],
                     f.node, lineKindEmpty, {f.term} \cup LiteralTerms), f)
      [] s.d.kind \in {nodeKindBlockLiteralDelimiter, nodeKindBlockListingDelimiter} ->
             blockAddAndDrop(
                 consumeLinesUntil([s EXCEPT !.n[f.node].kind = s.d.kind], f.node,
                                   s.d.kind, {}), f)
      [] s.d.kind = nodeKindBlockLiteralNamed ->
             blockAddAndDrop(
                 consumeLinesUntil([s EXCEPT !.n[f.node].kind = s.d.kind], f.node,
                                   lineKindEmpty, {}), f)
      [] s.d.kind = nodeKindListOrderedItem ->
             callListOrdered(SetTop(s, f), f.parent, <<>>, f.line)
      [] s.d.kind = nodeKindListUnorderedItem ->
             callListUnordered(SetTop(s, f), f.parent, f.line)
      [] s.d.kind = nodeKindListDescriptionItem ->
             callListDescription(SetTop(s, f), f.parent, f.line)
      [] s.d.kind = nodeKindBlockImage ->
             blockImage(IF s.n[f.node].kind # nodeKindUnknown
                        THEN blockAddNode(terminateCurrentNode(s), f, f.line, f.c)
                        ELSE SetTop(s, f))
      [] s.d.kind = f.term -> returnBlock(s)
      [] OTHER -> Continue(s, f, <<>>, f.c)

\* The head of the loop when no line is pending: r is the line read.
parseBlockRead(f, r) ==
    IF AtEnd(r) THEN returnBlock(r.s)
    ELSE parseBlockDispatch(r.s, [f EXCEPT !.spaces = r.spaces, !.line = r.line,
                                           !.c = r.c])

parseBlock(s) ==
    IF Len(Top(s).line) = 0 THEN parseBlockRead(Top(s), docLine(s))
    ELSE parseBlockDispatch(s, Top(s))

----------------------------------------------------------------------------
(* The list-block sub-parser (the block after a "+" line): one iteration.  *)

\* The new node, allocated last in s, takes the following lines up to an
\* empty line or a line of a kind in terms, and is returned to the list
\* parser with the line that ended it.
listBlockConsume(s, terms) ==
    LET returned(r) == returnListBlock(r.s, LastId(s), r.line, r.c)
    IN returned(consumeLinesUntil(s, LastId(s), lineKindEmpty, terms))

listBlockNode(s, nd, terms) == listBlockConsume(Alloc(s, nd), terms)

\* The listing case: the lines up to the closing delimiter go to the new
\* node, allocated last in s; the line returned is empty.
listBlockListing(s, c) ==
    LET returned(r) == returnListBlock(r.s, LastId(s), <<>>, c)
    IN returned(consumeLinesUntil(s, LastId(s), nodeKindBlockListingDelimiter, {}))

\* parseListBlockLine with "continue" in the case of the empty line.
parseListBlockLine_skipEmpty(s, line, c) ==
    IF Len(line) = 0 /\ c = 0 THEN returnListBlock(s, NIL, line, c)
    ELSE IF s.d.kind = lineKindAdmonition
    THEN listBlockNode(s, nodeParseLineAdmonition(newAdocNode(lineKindAdmonition), line),
                       ParagraphTerms)
    ELSE IF s.d.kind = lineKindBlockComment THEN parseIgnoreCommentBlock(s)
    ELSE IF s.d.kind = lineKindComment THEN s
    ELSE IF s.d.kind = lineKindEmpty THEN s
    ELSE IF s.d.kind = lineKindListContinue THEN s
    ELSE IF s.d.kind = nodeKindLiteralParagraph
    THEN listBlockNode(s, [newAdocNode(s.d.kind) EXCEPT
                              !.raw = TrimLeft(line, {SP, TAB}) \o <<LF>>],
                       {lineKindListContinue, nodeKindListOrderedItem,
                        nodeKindListUnorderedItem})
    ELSE IF s.d.kind = lineKindText
    THEN listBlockNode(s, [newAdocNode(nodeKindParagraph) EXCEPT !.raw = line \o <<LF>>],
                       {lineKindListContinue, nodeKindListOrderedItem,
                        nodeKindListUnorderedItem, nodeKindListDescriptionItem})
    ELSE IF s.d.kind = nodeKindBlockListingDelimiter
    THEN listBlockListing(Alloc(s, newAdocNode(s.d.kind)), c)
    ELSE IF s.d.kind \in {nodeKindListOrderedItem, nodeKindListUnorderedItem,
                          nodeKindListDescriptionItem}
    THEN returnListBlock(s, NIL, line, c)
    ELSE s

\* The body of the loop for the line just read.
parseListBlockLine(s, line, c) ==
    IF Len(line) = 0 /\ c = 0 THEN returnListBlock(s, NIL, line, c)
    ELSE IF s.d.kind = lineKindAdmonition
    THEN listBlockNode(s, nodeParseLineAdmonition(newAdocNode(lineKindAdmonition), line),
                       ParagraphTerms)
    ELSE IF s.d.kind = lineKindBlockComment THEN parseIgnoreCommentBlock(s)
    ELSE IF s.d.kind = lineKindComment THEN s
    ELSE IF s.d.kind = lineKindEmpty THEN returnListBlock(s, NIL, line, c)
    ELSE IF s.d.kind = lineKindListContinue THEN s
    ELSE IF s.d.kind = nodeKindLiteralParagraph
    THEN listBlockNode(s, [newAdocNode(s.d.kind) EXCEPT
                              !.raw = TrimLeft(line, {SP, TAB}) \o <<LF>>],
                       {lineKindListContinue, nodeKindListOrderedItem,
                        nodeKindListUnorderedItem})
    ELSE IF s.d.kind = lineKindText
    THEN listBlockNode(s, [newAdocNode(nodeKindParagraph) EXCEPT !.raw = line \o <<LF>>],
                       {lineKindListContinue, nodeKindListOrderedItem,
                        nodeKindListUnorderedItem, nodeKindListDescriptionItem})
    ELSE IF s.d.kind = nodeKindBlockListingDelimiter
    THEN listBlockListing(Alloc(s, newAdocNode(s.d.kind)), c)
    ELSE IF s.d.kind \in {nodeKindListOrderedItem, nodeKindListUnorderedItem,
                          nodeKindListDescriptionItem}
    THEN returnListBlock(s, NIL, line, c)
    ELSE s

parseListBlockRead(r) == parseListBlockLine(r.s, r.line, r.c)

parseListBlock(s) == parseListBlockRead(docLine(s))

----------------------------------------------------------------------------
(* The values the templates read from a node.                              *)

\* unicode.IsLetter(c) || unicode.IsDigit(c), on the characters of the model.
IsLetterOrDigit(ch) == IsAlnum(ch)

\* The loop body with every other character written as "_".
generateIDChar_noCollapse(id, c) ==
    IF IsLetterOrDigit(c) THEN Append(id, c) ELSE Append(id, "_")

\* The body of the loop of GenerateID: what the character c adds to id.
generateIDChar(id, c) ==
    IF IsLetterOrDigit(c) THEN Append(id, c)
    ELSE IF id[Len(id)] # "_" THEN Append(id, "_")
    ELSE id

\* The loop of GenerateID over the lower-cased text, from index x on.
RECURSIVE generateIDFrom(_, _, _)
generateIDFrom(str, x, id) ==
    IF x > Len(str) THEN id
    ELSE generateIDFrom(str, x + 1, generateIDChar(id, str[x]))

GenerateID(str) == TrimRight(generateIDFrom(ToLower(str), 1, <<"_">>), {"_"})

Content(nd) == TrimSpace(nd.raw)

IsStyleHorizontal(nd) == BitAnd(nd.style, styleDescriptionHorizontal) > 0

IsStyleQandA(nd) == BitAnd(nd.style, styleDescriptionQandA) > 0

GetListOrderedClass(nd) ==
    CASE nd.level = 2 -> "loweralpha"
      [] nd.level = 3 -> "lowerroman"
      [] nd.level = 4 -> "upperalpha"
      [] nd.level = 5 -> "upperroman"
      [] OTHER -> "arabic"

GetListOrderedType(nd) ==
    CASE nd.level = 2 -> "a"
      [] nd.level = 3 -> "i"
      [] nd.level = 4 -> "A"
      [] nd.level = 5 -> "I"
      [] OTHER -> ""

\* "v, ok := m[key]": v is the empty string when the key is missing.
HasKey(m, key) == key \in DOMAIN m

Lookup(m, key) == IF key \in DOMAIN m THEN m[key] ELSE <<>>

\* strings.Join
RECURSIVE Join(_, _)
Join(parts, sep) ==
    IF Len(parts) = 0 THEN <<>>
    ELSE IF Len(parts) = 1 THEN parts[1]
    ELSE parts[1] \o sep \o Join(Tail(parts), sep)

\* "if ok { q = append(q, name+"="+v) }" for v, ok := node.Attrs[key]
queryOf(nd, q, key, name) ==
    IF HasKey(nd.Attrs, key) THEN Append(q, name \o <<"=">> \o nd.Attrs[key]) ELSE q

\* url.URL.String for the scheme "https": the sources of the model hold
\* no character that the path escaping changes.
urlString(host, path, q, fragment) ==
    <<"h", "t", "t", "p", "s", ":", "/", "/">> \o host \o path
        \o (IF Len(q) > 0 THEN <<"?">> \o Join(q, <<"&">>) ELSE <<>>)
        \o (IF Len(fragment) > 0 THEN <<"#">> \o fragment ELSE <<>>)

\* The loop over the options of a YouTube video: r holds the node and the
\* query so far.
RECURSIVE youtubeOptions(_, _, _, _)
youtubeOptions(r, opts, x, src) ==
    IF x > Len(opts) THEN r
    ELSE IF TrimSpace(opts[x]) \in {optNameAutoplay, optNameLoop}
    THEN youtubeOptions([r EXCEPT !.q = Append(@, TrimSpace(opts[x]) \o <<"=", "1">>)],
                        opts, x + 1, src)
    ELSE IF TrimSpace(opts[x]) = optVideoModest
    THEN youtubeOptions(
             [r EXCEPT !.q = Append(@, optVideoYoutubeModestbranding \o <<"=", "1">>)],
             opts, x + 1, src)
    ELSE IF TrimSpace(opts[x]) = optNameNocontrols
    THEN youtubeOptions(
             [r EXCEPT !.q = @ \o <<optNameControls \o <<"=", "0">>,
                                    optVideoPlaylist \o <<"=">> \o src>>],
             opts, x + 1, src)
    ELSE IF TrimSpace(opts[x]) = optVideoNofullscreen
    THEN youtubeOptions(
             [r EXCEPT !.q = Append(@, optVideoFullscreen \o <<"=", "0">>),
                       !.nd = setAttr(@, optVideoNofullscreen, <<"1">>)],
             opts, x + 1, src)
    ELSE youtubeOptions(r, opts, x + 1, src)

\* The YouTube branch after its loop over the options.
youtubeSource(r, src) ==
    [nd |-> r.nd,
     src |-> urlString(<<"w", "w", "w", ".", "y", "o", "u", "t", "u", "b", "e", ".",
                         "c", "o", "m">>,
                       <<"/", "e", "m", "b", "e", "d", "/">> \o src,
                       queryOf(r.nd, queryOf(r.nd, r.q, attrNameTheme, attrNameTheme),
                               attrNameLang, attrNameYoutubeLang),
                       <<>>)]

\* The query of a Vimeo video: its autoplay and loop options.
vimeoQuery(opts) ==
    [i \in 1..Len(SelectSeq(opts, LAMBDA o : TrimSpace(o) \in {optNameAutoplay,
                                                              optNameLoop}))
        |-> TrimSpace(SelectSeq(opts, LAMBDA o : TrimSpace(o) \in {optNameAutoplay,
                                                                  optNameLoop})[i])
               \o <<"=", "1">>]

\* The loop over the options of a video that is neither YouTube nor Vimeo.
RECURSIVE directOptions(_, _, _)
directOptions(nd, opts, x) ==
    IF x > Len(opts) THEN nd
    ELSE IF TrimSpace(opts[x]) \in {optNameAutoplay, optNameLoop}
    THEN directOptions(setAttr(setAttr(nd, optNameNocontrols, <<"1">>),
                               TrimSpace(opts[x]), <<"1">>),
                       opts, x + 1)
    ELSE directOptions(nd, opts, x + 1)

\* The fragment of a video that is neither YouTube nor Vimeo.
directFragment(nd) ==
    IF HasKey(nd.Attrs, attrNameStart)
    THEN <<"t", "=">> \o nd.Attrs[attrNameStart]
             \o (IF HasKey(nd.Attrs, attrNameEnd)
                 THEN <<",">> \o nd.Attrs[attrNameEnd] ELSE <<>>)
    ELSE IF HasKey(nd.Attrs, attrNameEnd)
    THEN <<"t", "=", "0", ",">> \o nd.Attrs[attrNameEnd]
    ELSE <<>>

directSource(nd, src) ==
    [nd |-> nd,
     src |-> IF Len(directFragment(nd)) > 0 THEN src \o <<"#">> \o directFragment(nd)
             ELSE src]

\* GetVideoSource: the URL, and the node as the call leaves it.
videoSource(nd, src, opts) ==
    IF HasKey(nd.Attrs, attrNameYoutube)
    THEN youtubeSource(
             youtubeOptions(
                 [nd |-> nd,
                  q |-> queryOf(nd, queryOf(nd, <<(<<"r", "e", "l", "=", "0">>)>>,
                                            attrNameStart, attrNameStart),
                                attrNameEnd, attrNameEnd)],
                 opts, 1, src),
             src)
    ELSE IF HasKey(nd.Attrs, attrNameVimeo)
    THEN [nd |-> nd,
          src |-> urlString(<<"p", "l", "a", "y", "e", "r", ".", "v", "i", "m", "e", "o",
                              ".", "c", "o", "m">>,
                            <<"/", "v", "i", "d", "e", "o", "/">> \o src,
                            vimeoQuery(opts),
                            IF HasKey(nd.Attrs, attrNameStart)
                            THEN <<"a", "t", "=">> \o nd.Attrs[attrNameStart]
                            ELSE <<>>)]
    ELSE directSource(directOptions(nd, opts, 1), src)

GetVideoSource(nd) ==
    videoSource(nd, Lookup(nd.Attrs, attrNameSrc),
                Split(Lookup(nd.Attrs, attrNameOptions), ","))

----------------------------------------------------------------------------
(* The HTML backend.  What a template writes is a sequence of markup       *)
(* tokens: an opening tag with its attribute, a closing tag, an element    *)
(* without content, or text.                                               *)

Open(name, attr, value) == [t |-> "open", name |-> name, attr |-> attr, text |-> value]

Close(name) == [t |-> "close", name |-> name, attr |-> "", text |-> <<>>]

Void(name, attr, value) == [t |-> "void", name |-> name, attr |-> attr, text |-> value]

Text(value) == [t |-> "text", name |-> "", attr |-> "", text |-> value]

\* {{define "BLOCK_TITLE"}}
tmplBlockTitle(nd) ==
    IF Len(nd.rawTitle) > 0
    THEN <<Open("div", "class=title", <<>>), Text(nd.rawTitle), Close("div")>>
    ELSE <<>>

\* {{define "BEGIN_SECTION_L1"}} and its likes for L3, L4 and L5: the
\* section, its heading and an inner "sectionbody".
tmplBeginSectionBody(nd, class, heading) ==
    <<Open("div", class, <<>>), Open(heading, "id", GenerateID(Content(nd))),
      Text(Content(nd)), Close(heading), Open("div", "class=sectionbody", <<>>)>>

\* {{define "BEGIN_SECTION_L2"}}
tmplBeginSectionL2(nd) ==
    <<Open("div", "class=sect2", <<>>), Open("h3", "id", GenerateID(Content(nd))),
      Text(Content(nd)), Close("h3")>>

\* {{define "PARAGRAPH"}}
tmplParagraph(nd) ==
    <<Open("div", "class=paragraph", <<>>)>> \o tmplBlockTitle(nd)
        \o <<Open("p", "", <<>>), Text(Content(nd)), Close("p"), Close("div")>>

\* {{define "BLOCK_LITERAL"}} and {{define "BLOCK_LISTING"}}
tmplBlockPre(nd, class) ==
    <<Open("div", class, <<>>), Open("div", "class=content", <<>>), Open("pre", "", <<>>),
      Text(Content(nd)), Close("pre"), Close("div"), Close("div")>>

\* {{define "BEGIN_LIST_ORDERED"}}
tmplBeginListOrdered(nd) ==
    <<Open("div", "class=olist " \o GetListOrderedClass(nd), <<>>)>>
        \o tmplBlockTitle(nd)
        \o <<Open("ol", "type=" \o GetListOrderedType(nd), <<>>)>>

\* {{define "BEGIN_LIST_UNORDERED"}}
tmplBeginListUnordered(nd) ==
    <<Open("div", "class=ulist", <<>>)>> \o tmplBlockTitle(nd) \o <<Open("ul", "", <<>>)>>

\* The element a description list is rendered as.
descriptionElement(nd) ==
    IF IsStyleQandA(nd) THEN "ol" ELSE IF IsStyleHorizontal(nd) THEN "table" ELSE "dl"

\* {{define "BEGIN_LIST_DESCRIPTION"}}
tmplBeginListDescription(nd) ==
    <<Open("div",
           IF IsStyleQandA(nd) THEN "class=qlist qanda"
           ELSE IF IsStyleHorizontal(nd) THEN "class=hdlist" ELSE "class=dlist",
           <<>>)>>
        \o tmplBlockTitle(nd)
        \o <<Open(descriptionElement(nd), "", <<>>)>>

\* {{define "BEGIN_LIST_DESCRIPTION_ITEM"}}
tmplBeginListDescriptionItem(nd) ==
    (IF IsStyleQandA(nd)
     THEN <<Open("li", "", <<>>), Open("p", "", <<>>), Open("em", "", <<>>),
            Text(nd.rawTerm), Close("em"), Close("p")>>
     ELSE IF IsStyleHorizontal(nd)
     THEN <<Open("tr", "", <<>>), Open("td", "class=hdlist1", <<>>), Text(nd.rawTerm),
            Close("td"), Open("td", "class=hdlist2", <<>>)>>
     ELSE <<Open("dt", "class=hdlist1", <<>>), Text(nd.rawTerm), Close("dt"),
            Open("dd", "", <<>>)>>)
        \o (IF Len(Content(nd)) > 0
            THEN <<Open("p", "", <<>>), Text(Content(nd)), Close("p")>>
            ELSE <<>>)

\* {{define "END_LIST_DESCRIPTION_ITEM"}}
tmplEndListDescriptionItem(nd) ==
    IF IsStyleQandA(nd) THEN <<Close("li")>>
    ELSE IF IsStyleHorizontal(nd) THEN <<Close("td"), Close("tr")>>
    ELSE <<Close("dd")>>

\* The templates that toHTML names and the template set does not define in
\* the files at hand: one element for a leaf, one "div" for a wrapper.
tmplBlockImage(nd) == <<Void("img", "src", nd.raw)>>

tmplBlockAudio(nd) == <<Void("audio", "src", Lookup(nd.Attrs, attrNameSrc))>>

tmplBeginBlockOpen(nd) == <<Open("div", "class=openblock", <<>>)>>

tmplBeginAdmonition(nd) ==
    <<Open("div", "class=admonitionblock", <<>>), Text(nd.rawTerm), Text(Content(nd))>>

\* BLOCK_VIDEO reads the source with GetVideoSource, which leaves the node
\* as v.nd.
tmplBlockVideo(r, node, v) ==
    [n |-> [r.n EXCEPT ![node] = v.nd],
     out |-> r.out \o <<Void("video", "src", v.src)>>]

\* The first switch of toHTML: the begin template of the node's kind.
htmlBegin(r, node, nd) ==
    CASE nd.kind = nodeKindPreamble ->
             [r EXCEPT !.out = @ \o <<Open("div", "id=preamble", <<>>),
                                      Open("div", "class=sectionbody", <<>>)>>]
      [] nd.kind = nodeKindSectionL1 ->
             [r EXCEPT !.out = @ \o tmplBeginSectionBody(nd, "class=sect1", "h2")]
      [] nd.kind = nodeKindSectionL2 -> [r EXCEPT !.out = @ \o tmplBeginSectionL2(nd)]
      [] nd.kind = nodeKindSectionL3 ->
             [r EXCEPT !.out = @ \o tmplBeginSectionBody(nd, "class=sect3", "h4")]
      [] nd.kind = nodeKindSectionL4 ->
             [r EXCEPT !.out = @ \o tmplBeginSectionBody(nd, "class=sect4", "h5")]
      [] nd.kind = nodeKindSectionL5 ->
             [r EXCEPT !.out = @ \o tmplBeginSectionBody(nd, "class=sect5", "h6")]
      [] nd.kind = nodeKindParagraph -> [r EXCEPT !.out = @ \o tmplParagraph(nd)]
      [] nd.kind \in {nodeKindLiteralParagraph, nodeKindBlockLiteralNamed,
                      nodeKindBlockLiteralDelimiter} ->
             [r EXCEPT !.out = @ \o tmplBlockPre(nd, "class=literalblock")]
      [] nd.kind = nodeKindBlockListingDelimiter ->
             [r EXCEPT !.out = @ \o tmplBlockPre(nd, "class=listingblock")]
      [] nd.kind = nodeKindListOrdered -> [r EXCEPT !.out = @ \o tmplBeginListOrdered(nd)]
      [] nd.kind = nodeKindListUnordered ->
             [r EXCEPT !.out = @ \o tmplBeginListUnordered(nd)]
      [] nd.kind = nodeKindListDescription ->
             [r EXCEPT !.out = @ \o tmplBeginListDescription(nd)]
      [] nd.kind \in {nodeKindListOrderedItem, nodeKindListUnorderedItem} ->
             [r EXCEPT !.out = @ \o <<Open("li", "", <<>>), Open("p", "", <<>>),
                                      Text(Content(nd)), Close("p")>>]
      [] nd.kind = nodeKindListDescriptionItem ->
             [r EXCEPT !.out = @ \o tmplBeginListDescriptionItem(nd)]
      [] nd.kind = lineKindHorizontalRule ->
             [r EXCEPT !.out = @ \o <<Void("hr", "", <<>>)>>]
      [] nd.kind = lineKindPageBreak ->
             [r EXCEPT !.out = @ \o <<Void("div", "class=page-break", <<>>)>>]
      [] nd.kind = nodeKindBlockImage -> [r EXCEPT !.out = @ \o tmplBlockImage(nd)]
      [] nd.kind = nodeKindBlockOpen -> [r EXCEPT !.out = @ \o tmplBeginBlockOpen(nd)]
      [] nd.kind = nodeKindBlockVideo -> tmplBlockVideo(r, node, GetVideoSource(nd))
      [] nd.kind = nodeKindBlockAudio -> [r EXCEPT !.out = @ \o tmplBlockAudio(nd)]
      [] nd.kind = lineKindAdmonition -> [r EXCEPT !.out = @ \o tmplBeginAdmonition(nd)]
      [] OTHER -> r

\* The second switch of toHTML: the end template of the node's kind.
htmlEnd(r, nd) ==
    CASE nd.kind = nodeKindPreamble ->
             [r EXCEPT !.out = @ \o <<Close("div"), Close("div")>>]
      [] nd.kind = nodeKindSectionL1 ->
             [r EXCEPT !.out = @ \o <<Close("div"), Close("div")>>]
      [] nd.kind \in {nodeKindSectionL2, nodeKindSectionL3, nodeKindSectionL4,
                      nodeKindSectionL5} ->
             [r EXCEPT !.out = @ \o <<Close("div")>>]
      [] nd.kind \in {nodeKindListOrderedItem, nodeKindListUnorderedItem} ->
             [r EXCEPT !.out = @ \o <<Close("li")>>]
      [] nd.kind = nodeKindListDescriptionItem ->
             [r EXCEPT !.out = @ \o tmplEndListDescriptionItem(nd)]
      [] nd.kind = nodeKindListOrdered ->
             [r EXCEPT !.out = @ \o <<Close("ol"), Close("div")>>]
      [] nd.kind = nodeKindListUnordered ->
             [r EXCEPT !.out = @ \o <<Close("ul"), Close("div")>>]
      [] nd.kind = nodeKindListDescription ->
             [r EXCEPT !.out = @ \o <<Close(descriptionElement(nd)), Close("div")>>]
      [] nd.kind \in {nodeKindBlockOpen, lineKindAdmonition} ->
             [r EXCEPT !.out = @ \o <<Close("div")>>]
      [] OTHER -> r

RECURSIVE toHTML(_, _)

\* "if node.child != nil { err = node.child.toHTML(tmpl, w) }"
toHTMLChild(r, node) == IF r.n[node].child # NIL THEN toHTML(r, r.n[node].child) ELSE r

\* "if node.next != nil { err = node.next.toHTML(tmpl, w) }"
toHTMLNext(r, node) == IF r.n[node].next # NIL THEN toHTML(r, r.n[node].next) ELSE r

\* adocNode.toHTML: r holds the arena and what was written so far.
toHTML(r, node) ==
    LET ended(c) == htmlEnd(c, c.n[node])
    IN toHTMLNext(ended(toHTMLChild(htmlBegin(r, node, r.n[node]), node)), node)

\* {{define "BEGIN"}} and {{define "BEGIN_HEADER"}}
tmplBegin(d) ==
    <<Open("html", "lang=en", <<>>), Open("head", "", <<>>)>>
        \o (IF Len(d.Author) > 0 THEN <<Void("meta", "name=author", d.Author)>> ELSE <<>>)
        \o (IF Len(d.Title) > 0
            THEN <<Open("title", "", <<>>), Text(d.Title), Close("title")>> ELSE <<>>)
        \o <<Close("head"), Open("body", "class=article", <<>>),
             Open("div", "id=header", <<>>)>>
        \o (IF Len(d.Title) > 0
            THEN <<Open("h1", "", <<>>), Text(d.Title), Close("h1")>> ELSE <<>>)
        \o <<Open("div", "class=details", <<>>)>>
        \o (IF Len(d.Author) > 0
            THEN <<Open("span", "id=author", <<>>), Text(d.Author), Close("span")>>
            ELSE <<>>)
        \o (IF Len(d.RevNumber) > 0
            THEN <<Open("span", "id=revnumber", <<>>), Text(d.RevNumber \o d.RevSeparator),
                   Close("span")>>
            ELSE <<>>)
        \o (IF Len(d.RevDate) > 0
            THEN <<Open("span", "id=revdate", <<>>), Text(d.RevDate), Close("span")>>
            ELSE <<>>)
        \o <<Close("div"), Close("div"), Open("div", "id=content", <<>>)>>

\* {{define "END"}}
tmplEnd(d) ==
    <<Close("div"), Open("div", "id=footer", <<>>), Open("div", "id=footer-text", <<>>)>>
        \o (IF Len(d.RevNumber) > 0 THEN <<Text(d.RevNumber)>> ELSE <<>>)
        \o <<Close("div"), Close("div"), Close("body"), Close("html")>>

\* Document.ToHTML: the arena as the rendering leaves it, and what it wrote.
ToHTML(d, n) ==
    LET ended(r) == [r EXCEPT !.out = @ \o tmplEnd(d)]
        \* doc.content.next is never set: the content node has no sibling.
        next(r) == IF r.n[d.content].next # NIL THEN toHTML(r, r.n[d.content].next) ELSE r
    IN ended(next(toHTMLChild([n |-> n, out |-> tmplBegin(d)], d.content)))

----------------------------------------------------------------------------
(* The state machine: a document is chosen, Parse runs on it one loop      *)
(* iteration at a time.                                                    *)

content == 1

\* How often a document is rendered.
MaxRender == 1

Commit(s) ==
    /\ doc' = s.d
    /\ nodes' = s.n
    /\ stack' = s.stack
    /\ pc' = s.pc
    /\ UNCHANGED <<lines, finalNL, html, call, ret>>

Running(fn) == pc = "run" /\ stack[Len(stack)].fn = fn

HeaderStep == Running("parseHeader") /\ Commit(parseHeader(Cur))

ParseStep == Running("Parse") /\ Commit(Parse(Cur))

ListOrderedStep == Running("parseListOrdered") /\ Commit(parseListOrdered(Cur))

ListUnorderedStep == Running("parseListUnordered") /\ Commit(parseListUnordered(Cur))

ListDescriptionStep == Running("parseListDescription") /\ Commit(parseListDescription(Cur))

BlockStep == Running("parseBlock") /\ Commit(parseBlock(Cur))

ListBlockStep == Running("parseListBlock") /\ Commit(parseListBlock(Cur))

\* ToHTML is called on the document that Parse returned.
ToHTMLStep ==
    /\ pc = "done"
    /\ Len(html) < MaxRender
    /\ nodes' = ToHTML(doc, nodes).n
    /\ html' = Append(html, ToHTML(doc, nodes).out)
    /\ UNCHANGED <<lines, finalNL, doc, stack, pc, call, ret>>

Next ==
    \/ HeaderStep
    \/ ParseStep
    \/ ListOrderedStep
    \/ ListUnorderedStep
    \/ ListDescriptionStep
    \/ BlockStep
    \/ ListBlockStep
    \/ ToHTMLStep

\* No function is called on its own while a document is parsed.
NoCall == [fn |-> "", arg |-> <<>>]

\* The Document as Open builds it, and Parse entered: its first statement
\* after creating the line source is the call of parseHeader.
InitDoc ==
    [x |-> 0, lineNum |-> 0, kind |-> 0, prevKind |-> 0,
     Title |-> <<>>, Author |-> <<>>, RevNumber |-> <<>>, RevSeparator |-> <<>>,
     RevDate |-> <<>>, attributes |-> <<>>, header |-> NIL, content |-> content,
     nodeCurrent |-> NIL, nodeParent |-> NIL]

\* A content is the lines between its newlines; it ends with a newline or
\* with a non-empty last line.
InitOn(docs) ==
    /\ lines \in docs
    /\ finalNL \in BOOLEAN
    /\ IF lines = <<>> THEN ~finalNL
       ELSE IF lines[Len(lines)] = <<>> THEN finalNL ELSE TRUE
    /\ doc = InitDoc
    /\ nodes = <<newAdocNode(nodeKindDocContent)>>
    /\ stack = <<Frame("Parse"), Frame("parseHeader")>>
    /\ pc = "run"
    /\ html = <<>>
    /\ call = NoCall
    /\ ret = <<>>

\* All contents of at most n lines over an alphabet of lines.
Docs(alphabet, n) == UNION {[1..k -> alphabet] : k \in 0..n}

----------------------------------------------------------------------------
(* The contents the parser runs on: lines as sequences of characters.      *)

lnBlank == <<>>

lnText == <<"a">>

lnOrdered == <<".", " ", "a">>

lnOrdered2 == <<".", ".", " ", "b">>

lnUnordered == <<"*", " ", "c">>

lnDescription == <<"x", ":", ":", " ", "y">>

lnContinue == <<"+">>

lnOpen == <<"-", "-">>

lnSection1 == <<"=", "=", " ", "s">>

lnSection2 == <<"=", "=", "=", " ", "t">>

lnSection3 == <<"=", "=", "=", "=", " ", "u">>

lnLiteral == <<" ", "l">>

lnAdmonition == <<"N", "O", "T", "E", ":", " ", "n">>

lnListing == <<"-", "-", "-", "-">>

lnLiteralBlock == <<".", ".", ".", ".">>

lnComment == <<"/", "/", " ", "c">>

lnEquals == <<"=">>

lnColon == <<":">>

lnTitle == <<"=", " ", "T">>

lnTitleHash == <<"#", " ", "T">>

lnTitleImage == <<"i", "m", "a", "g", "e", ":", ":", "=", " ", "T">>

lnAuthor == <<"A", "u">>

lnRevision == <<"v", "1", ",", "d">>

lnAttribute == <<":", "k", ":", " ", "v">>

lnImageBad == <<"i", "m", "a", "g", "e", ":", ":", "]", "[">>

lnHorizontal == <<"[", "h", "o", "r", "i", "z", "o", "n", "t", "a", "l", "]">>

lnQandA == <<"[", "q", "a", "n", "d", "a", "]">>

lnStyleUnknown == <<"[", "x", "]">>

lnCPU == <<"C", "P", "U", ":", ":", " ", "F", "a", "s", "t">>

lnRAM == <<"R", "A", "M", ":", ":", " ", "P", "l", "e", "n", "t", "y">>

lnOne == <<".", " ", "o", "n", "e">>

lnOneA == <<".", ".", " ", "o", "n", "e", ".", "a">>

lnTwo == <<".", " ", "t", "w", "o">>

lnCode1 == <<"c", "o", "d", "e", " ", "l", "i", "n", "e", " ", "1">>

lnCode2 == <<" ", "c", "o", "d", "e", " ", "l", "i", "n", "e", " ", "2">>

lnItem == <<".", " ", "i", "t", "e", "m">>

lnLiteralBody ==
    <<" ", "l", "i", "t", "e", "r", "a", "l", " ", "b", "o", "d", "y">>

lnNext == <<".", " ", "n", "e", "x", "t">>

lnVideo == <<"v", "i", "d", "e", "o", ":", ":", "v", "[", "]">>

lnVideoAutoplay ==
    <<"v", "i", "d", "e", "o", ":", ":", "v", "[", "o", "p", "t", "i", "o", "n", "s",
      "=", "a", "u", "t", "o", "p", "l", "a", "y", "]">>

lnVideoYoutube ==
    <<"v", "i", "d", "e", "o", ":", ":", "v", "[", "y", "o", "u", "t", "u", "b", "e",
      ",", "o", "p", "t", "i", "o", "n", "s", "=", "n", "o", "f", "u", "l", "l", "s",
      "c", "r", "e", "e", "n", "]">>

lnVideoVimeo ==
    <<"v", "i", "d", "e", "o", ":", ":", "v", "[", "v", "i", "m", "e", "o", ",", "s",
      "t", "a", "r", "t", "=", "5", "]">>

lnAudio ==
    <<"a", "u", "d", "i", "o", ":", ":", "a", "[", "o", "p", "t", "i", "o", "n", "s",
      "=", "l", "o", "o", "p", "]">>

lnSidebar == <<"*", "*", "*", "*">>

lnAttributeBad == <<":", "-", "x">>

lnImageText == <<"i", "m", "a", "g", "e", ":", ":", "x">>

lnVideoText == <<"v", "i", "d", "e", "o", ":", ":", "x">>

lnAudioText == <<"a", "u", "d", "i", "o", ":", ":", "x">>

lnExample == <<"=", "=", "=", "=">>

lnAttributeSpace == <<":", "a", " ", "b", ":", " ", "v">>

lnAttributeOpen == <<":", "k">>

lnAttributeDash == <<":", "k", "-", "1", ":", " ", "w">>

lnImageEmpty == <<"i", "m", "a", "g", "e", ":", ":">>

lnBlockComment == <<"/", "/", "/", "/">>

lnStyleClass == <<"[", ".", "k", "]">>

lnBlockTitle == <<".", "T">>

\* The line "[literal]".
lnLiteralNamed == <<"[", "l", "i", "t", "e", "r", "a", "l", "]">>

\* The page break line.
lnPageBreak == <<"<", "<", "<">>

\* A horizontal rule line.
lnRule == <<"'", "'", "'">>

\* The most lines a generated content has.
MaxLines == 4

\* The end-to-end inputs S3 to S6 and an open block; every specification
\* runs them next to the contents generated from its own lines.
ScenarioS3 == <<lnOne, lnOneA, lnTwo>>

ScenarioS4 == <<lnHorizontal, lnCPU, lnRAM>>

ScenarioS5 == <<lnListing, lnCode1, lnCode2, lnListing>>

ScenarioS6 == <<lnItem, lnContinue, lnLiteralBody, lnNext>>

ScenarioOpen == <<lnOpen, lnUnordered, lnText, lnOpen>>

Scenarios == {ScenarioS3, ScenarioS4, ScenarioS5, ScenarioS6, ScenarioOpen}

\* A list item, an empty line, a comment block and a text line.
ScenarioComment == <<lnOrdered, lnBlank, lnBlockComment, lnBlockComment, lnText>>

\* Lists: items of the three kinds at two levels, continuation, text.
ListLines ==
    {lnBlank, lnText, lnOrdered, lnOrdered2, lnUnordered, lnDescription,
     lnContinue, lnOpen}

Init == InitOn(Docs(ListLines, MaxLines) \cup Scenarios)

Spec == Init /\ [][Next]_vars

\* Lines of one or two characters and malformed macros.
ShortLines ==
    {lnBlank, lnText, lnEquals, lnColon, lnTitle, lnAttribute, lnImageBad}

InitShort == InitOn(Docs(ShortLines, MaxLines) \cup Scenarios)

SpecShort == InitShort /\ [][Next]_vars

\* Sections of three levels between other blocks.
SectionLines ==
    {lnBlank, lnText, lnSection1, lnSection2, lnSection3, lnOrdered, lnOpen,
     lnLiteral}

InitSection == InitOn(Docs(SectionLines, MaxLines) \cup Scenarios)

SpecSection == InitSection /\ [][Next]_vars

\* Delimited listing and literal blocks and what they may hold.
ListingLines ==
    {lnBlank, lnText, lnLiteral, lnComment, lnListing, lnLiteralBlock}

InitListing == InitOn(Docs(ListingLines, MaxLines) \cup Scenarios)

SpecListing == InitListing /\ [][Next]_vars

\* List items, the continuation line and the blocks that may follow it.
ContinueLines ==
    {lnText, lnOrdered, lnUnordered, lnDescription, lnContinue, lnLiteral,
     lnAdmonition, lnListing}

InitContinue == InitOn(Docs(ContinueLines, MaxLines) \cup Scenarios)

SpecContinue == InitContinue /\ [][Next]_vars

\* Header lines: titles, author, revision, attribute, comment.
HeaderLines ==
    {lnBlank, lnText, lnTitle, lnTitleHash, lnTitleImage, lnAuthor, lnRevision,
     lnAttribute, lnComment}

InitHeader == InitOn(Docs(HeaderLines, MaxLines) \cup Scenarios)

SpecHeader == InitHeader /\ [][Next]_vars

\* Style lines before description items.
StyleLines ==
    {lnBlank, lnText, lnHorizontal, lnQandA, lnStyleUnknown, lnCPU, lnRAM,
     lnOrdered}

InitStyle == InitOn(Docs(StyleLines, MaxLines) \cup Scenarios)

SpecStyle == InitStyle /\ [][Next]_vars

\* Video and audio blocks between text and a section.
MediaLines ==
    {lnBlank, lnText, lnSection1, lnVideo, lnVideoAutoplay, lnVideoYoutube,
     lnVideoVimeo, lnAudio}

InitMedia == InitOn(Docs(MediaLines, MaxLines) \cup Scenarios)

SpecMedia == InitMedia /\ [][Next]_vars

\* Lines of no supported construct between text, comments and a section.
UnknownLines ==
    {lnBlank, lnText, lnComment, lnSidebar, lnAttributeBad, lnAttribute, lnTitle,
     lnSection1}

InitUnknown == InitOn(Docs(UnknownLines, MaxLines) \cup Scenarios)

SpecUnknown == InitUnknown /\ [][Next]_vars

\* Block macros without attributes between text and a section.
MacroLines ==
    {lnBlank, lnText, lnImageText, lnVideoText, lnAudioText, lnVideo, lnSection1}

InitMacro == InitOn(Docs(MacroLines, MaxLines) \cup Scenarios)

SpecMacro == InitMacro /\ [][Next]_vars

\* The four block delimiters between text, a list item and a section.
UnclosedLines ==
    {lnBlank, lnText, lnListing, lnLiteralBlock, lnOpen, lnExample, lnUnordered,
     lnSection1}

InitUnclosed == InitOn(Docs(UnclosedLines, MaxLines) \cup Scenarios)

SpecUnclosed == InitUnclosed /\ [][Next]_vars

\* Attribute lines of several forms in and after the header.
HeaderAttributeLines ==
    {lnBlank, lnText, lnTitle, lnAuthor, lnAttribute, lnAttributeDash,
     lnAttributeBad, lnAttributeSpace, lnAttributeOpen}

InitHeaderAttribute == InitOn(Docs(HeaderAttributeLines, MaxLines) \cup Scenarios)

SpecHeaderAttribute == InitHeaderAttribute /\ [][Next]_vars

\* What the header parser hands to the body: header lines, then lines of
\* several kinds, a block macro without a target among them.
HandOffLines ==
    {lnBlank, lnText, lnTitle, lnAuthor, lnAttribute, lnComment, lnLiteral,
     lnOrdered, lnImageEmpty}

InitHandOff == InitOn(Docs(HandOffLines, MaxLines) \cup Scenarios)

SpecHandOff == InitHandOff /\ [][Next]_vars

\* What may end a list: an empty line, then text, a literal paragraph, an
\* admonition or a section, with comments in between.
ListEndLines ==
    {lnBlank, lnText, lnLiteral, lnAdmonition, lnSection1, lnOrdered,
     lnUnordered, lnDescription, lnComment, lnBlockComment}

InitListEnd ==
    InitOn(Docs(ListEndLines, MaxLines) \cup Scenarios \cup {ScenarioComment})

SpecListEnd == InitListEnd /\ [][Next]_vars

\* Open and example blocks around paragraphs, literal paragraphs and lists
\* of the three kinds.
BlockEndLines ==
    {lnBlank, lnText, lnLiteral, lnOpen, lnExample, lnOrdered, lnUnordered,
     lnDescription}

InitBlockEnd == InitOn(Docs(BlockEndLines, MaxLines) \cup Scenarios)

SpecBlockEnd == InitBlockEnd /\ [][Next]_vars

\* A paragraph and the lines that may end it: an empty line, the four
\* block delimiters, a lone "+", a list item.
ParagraphLines ==
    {lnBlank, lnText, lnListing, lnLiteralBlock, lnOpen, lnExample, lnContinue,
     lnUnordered}

InitParagraph == InitOn(Docs(ParagraphLines, MaxLines) \cup Scenarios)

SpecParagraph == InitParagraph /\ [][Next]_vars

\* Style and style-class lines before the blocks they decorate, with an
\* attribute line or an empty line in between.
DecorateLines ==
    {lnBlank, lnText, lnHorizontal, lnStyleClass, lnAttribute, lnOrdered,
     lnUnordered, lnDescription, lnListing, lnOpen}

InitDecorate == InitOn(Docs(DecorateLines, MaxLines) \cup Scenarios)

SpecDecorate == InitDecorate /\ [][Next]_vars

\* A block title before paragraphs, lists that nest and an open block.
TitleLines ==
    {lnBlank, lnText, lnBlockTitle, lnOrdered, lnOrdered2, lnUnordered,
     lnDescription, lnOpen}

InitTitle == InitOn(Docs(TitleLines, MaxLines) \cup Scenarios)

SpecTitle == InitTitle /\ [][Next]_vars

\* A list item, the continuation line, and what may stand between it and
\* the block: blank lines and comments.
ListBlockLines ==
    {lnBlank, lnComment, lnBlockComment, lnText, lnOrdered, lnDescription,
     lnContinue, lnLiteral, lnAdmonition, lnListing}

InitListBlock == InitOn(Docs(ListBlockLines, MaxLines) \cup Scenarios)

SpecListBlock == InitListBlock /\ [][Next]_vars

\* Paragraphs, literal paragraphs and the delimiter lines that end them.
TerminatorLines ==
    {lnBlank, lnText, lnLiteral, lnListing, lnLiteralBlock, lnLiteralNamed}

InitTerminator == InitOn(Docs(TerminatorLines, MaxLines) \cup Scenarios)

SpecTerminator == InitTerminator /\ [][Next]_vars

\* Blocks of several kinds one after the other, with a macro line that
\* leaves its paragraph open.
OrderLines ==
    {lnBlank, lnText, lnImageText, lnOrdered, lnUnordered, lnDescription, lnListing,
     lnSection1}

InitOrder == InitOn(Docs(OrderLines, MaxLines) \cup Scenarios)

SpecOrder == InitOrder /\ [][Next]_vars

\* Open and example blocks with page breaks, rules, text and list items
\* inside.
InnerLines ==
    {lnBlank, lnText, lnOpen, lnExample, lnPageBreak, lnRule, lnUnordered}

InitInner == InitOn(Docs(InnerLines, MaxLines) \cup Scenarios)

SpecInner == InitInner /\ [][Next]_vars

----------------------------------------------------------------------------
(* The functions that are called on a value of their own: the value is     *)
(* drawn at the start, and a step is one call.                             *)

\* All strings of at most n characters over an alphabet.
Strings(alphabet, n) == UNION {[1..k -> alphabet] : k \in 0..n}

\* The most characters of a text an id is generated from.
MaxIDLen == 3

IDChars == {"a", "B", "1", "_", " ", "-"}

GenerateIDCalls == {[fn |-> "GenerateID", arg |-> a] : a \in Strings(IDChars, MaxIDLen)}

\* The most attributes of a generated block attribute.
MaxAttrs == 3

\* Attributes as they are written: a name, a name with a value, a name with
\* a value in double quotes.
AttrPieces ==
    {[name |-> <<"a">>, value |-> <<>>, form |-> "name"],
     [name |-> <<"a">>, value |-> <<"2">>, form |-> "value"],
     [name |-> <<"b">>, value |-> <<"c", ",", " ", "d">>, form |-> "quoted"],
     [name |-> <<"e">>, value |-> <<>>, form |-> "name"],
     [name |-> <<"f">>, value |-> <<"3">>, form |-> "value"]}

\* What follows the closing "]" of the input.
AttrTails == {<<>>, <<"b", ",", "c", "]">>}

\* Inputs that do not start with "[".
AttrOthers == {<<>>, <<"a">>, <<"a", "[", "b", "]">>, <<" ", "[", "a", "]">>, <<"]">>}

\* The text of one attribute.
attrText(piece) ==
    IF piece.form = "name" THEN piece.name
    ELSE IF piece.form = "value" THEN piece.name \o <<"=">> \o piece.value
    ELSE piece.name \o <<"=", "\"">> \o piece.value \o <<"\"">>

RECURSIVE attrTexts(_, _)
attrTexts(pieces, x) ==
    IF x > Len(pieces) THEN <<>>
    ELSE (IF x > 1 THEN <<",">> ELSE <<>>) \o attrText(pieces[x])
             \o attrTexts(pieces, x + 1)

\* The input "[" attributes "]" tail.
attrInput(arg) ==
    IF arg.bracket THEN <<"[">> \o attrTexts(arg.pieces, 1) \o <<"]">> \o arg.tail
    ELSE arg.tail

ParseBlockAttributeCalls ==
    {[fn |-> "parseBlockAttribute",
      arg |-> [bracket |-> TRUE, pieces |-> ps, tail |-> t]] :
        ps \in Strings(AttrPieces, MaxAttrs), t \in AttrTails}
    \cup {[fn |-> "parseBlockAttribute",
           arg |-> [bracket |-> FALSE, pieces |-> <<>>, tail |-> t]] : t \in AttrOthers}

\* The most colons after the term of a description line.
MaxColons == 4

DescriptionTerms == {<<"C", "P", "U">>, <<"x">>}

DescriptionSpaces == {<<>>, <<SP>>, <<TAB>>, <<SP, SP>>}

DescriptionBodies == {<<>>, <<"y">>, <<"F", "a", "s", "t">>, <<"y", " ", "z">>}

\* The line TERM, k colons, spaces, BODY.
descriptionLine(arg) ==
    arg.term \o [i \in 1..arg.colons |-> ":"] \o arg.spaces \o arg.body

ParseListDescriptionCalls ==
    {[fn |-> "parseListDescription",
      arg |-> [term |-> t, colons |-> k, spaces |-> sp, body |-> b]] :
        t \in DescriptionTerms, k \in 2..MaxColons, sp \in DescriptionSpaces,
        b \in DescriptionBodies}

\* The most characters of a line that starts with a list marker.
MaxMarkerLen == 4

MarkerChars == {".", "*", SP, TAB, "a", "-"}

\* The unindented lines that start with "." or "*".
WhatKindOfLineCalls ==
    {[fn |-> "whatKindOfLine", arg |-> a] :
        a \in {s \in Strings(MarkerChars, MaxMarkerLen) :
                  Len(s) > 0 /\ s[1] \in {".", "*"}}}

InitCall ==
    /\ lines = <<>>
    /\ finalNL = FALSE
    /\ doc = InitDoc
    /\ nodes = <<newAdocNode(nodeKindDocContent)>>
    /\ stack = <<>>
    /\ pc = "call"
    /\ html = <<>>
    /\ call \in GenerateIDCalls \cup ParseBlockAttributeCalls
                \cup ParseListDescriptionCalls \cup WhatKindOfLineCalls
    /\ ret = <<>>

\* GenerateID on the text, and then on the id it returned.
GenerateIDCall ==
    /\ pc = "call"
    /\ call.fn = "GenerateID"
    /\ Len(ret) < 2
    /\ ret' = Append(ret, GenerateID(IF ret = <<>> THEN call.arg ELSE ret[Len(ret)]))
    /\ UNCHANGED <<lines, finalNL, doc, nodes, stack, pc, html, call>>

\* parseBlockAttribute on the input.
ParseBlockAttributeCall ==
    /\ pc = "call"
    /\ call.fn = "parseBlockAttribute"
    /\ ret = <<>>
    /\ ret' = <<parseBlockAttribute(attrInput(call.arg))>>
    /\ UNCHANGED <<lines, finalNL, doc, nodes, stack, pc, html, call>>

\* parseListDescription of a new node on the line.
ParseListDescriptionCall ==
    /\ pc = "call"
    /\ call.fn = "parseListDescription"
    /\ ret = <<>>
    /\ ret' = <<nodeParseListDescription(newAdocNode(nodeKindListDescriptionItem),
                                         descriptionLine(call.arg))>>
    /\ UNCHANGED <<lines, finalNL, doc, nodes, stack, pc, html, call>>

\* whatKindOfLine on the line.
WhatKindOfLineCall ==
    /\ pc = "call"
    /\ call.fn = "whatKindOfLine"
    /\ ret = <<>>
    /\ ret' = <<whatKindOfLine(call.arg)>>
    /\ UNCHANGED <<lines, finalNL, doc, nodes, stack, pc, html, call>>

NextCall ==
    \/ GenerateIDCall
    \/ ParseBlockAttributeCall
    \/ ParseListDescriptionCall
    \/ WhatKindOfLineCall

SpecCall == InitCall /\ [][NextCall]_vars

\* The most characters of a line whose kind is asked for.
MaxKindLen == 5

KindChars == {":", ".", "*", SP, TAB, "a"}

\* The lines whatKindOfLine is called on: indented or not, with and
\* without "::", "." and "*".
LineKindCalls ==
    {[fn |-> "whatKindOfLine", arg |-> a] : a \in Strings(KindChars, MaxKindLen)}

InitLineKind ==
    /\ lines = <<>>
    /\ finalNL = FALSE
    /\ doc = InitDoc
    /\ nodes = <<newAdocNode(nodeKindDocContent)>>
    /\ stack = <<>>
    /\ pc = "call"
    /\ html = <<>>
    /\ call \in LineKindCalls
    /\ ret = <<>>

\* parseListDescription of a new item on the text whatKindOfLine returned
\* for a description list item, as the list parsers call it.
DescriptionItemCall ==
    /\ pc = "call"
    /\ call.fn = "whatKindOfLine"
    /\ Len(ret) = 1
    /\ ret[1].kind = nodeKindListDescriptionItem
    /\ ret' = Append(ret, nodeParseListDescription(
                              newAdocNode(nodeKindListDescriptionItem), ret[1].got))
    /\ UNCHANGED <<lines, finalNL, doc, nodes, stack, pc, html, call>>

NextLineKind ==
    \/ WhatKindOfLineCall
    \/ DescriptionItemCall

SpecLineKind == InitLineKind /\ [][NextLineKind]_vars

----------------------------------------------------------------------------
(* Properties.  First what they share: the step a parser state takes, and  *)
(* the tree below the content root.                                        *)

\* The step the running parser takes from s; s itself once Parse is over.
StepOf(s) ==
    IF s.pc # "run" THEN s
    ELSE IF Top(s).fn = "parseHeader" THEN parseHeader(s)
    ELSE IF Top(s).fn = "Parse" THEN Parse(s)
    ELSE IF Top(s).fn = "parseListOrdered" THEN parseListOrdered(s)
    ELSE IF Top(s).fn = "parseListUnordered" THEN parseListUnordered(s)
    ELSE IF Top(s).fn = "parseListDescription" THEN parseListDescription(s)
    ELSE IF Top(s).fn = "parseBlock" THEN parseBlock(s)
    ELSE parseListBlock(s)

\* TRUE when the running parser holds a line it has still to handle.
Pending(s) == Len(Top(s).line) > 0

\* The nodes reachable from the content root over child and next.
RECURSIVE closure(_, _)
closure(n, S) ==
    LET T == (S \cup {n[i].child : i \in S} \cup {n[i].next : i \in S}) \ {NIL}
    IN IF T = S THEN S ELSE closure(n, T)

Attached(n) == closure(n, {content})

\* The chain of next links from c on, cut after fuel nodes.
RECURSIVE walkNext(_, _, _)
walkNext(n, c, fuel) ==
    IF c = NIL \/ fuel = 0 THEN <<>>
    ELSE <<c>> \o walkNext(n, n[c].next, fuel - 1)

\* The child list of p, first child first.
Children(n, p) == walkNext(n, n[p].child, Len(n) + 1)

\* The node the prev links lead to from c.
RECURSIVE walkPrev(_, _, _)
walkPrev(n, c, fuel) ==
    IF n[c].prev = NIL \/ fuel = 0 THEN c ELSE walkPrev(n, n[c].prev, fuel - 1)

\* TRUE when the parent links lead from c to the content root.
RECURSIVE reachesRoot(_, _, _)
reachesRoot(n, c, fuel) ==
    IF c = content THEN TRUE
    ELSE IF c = NIL \/ fuel = 0 THEN FALSE
    ELSE reachesRoot(n, n[c].parent, fuel - 1)

Occurrences(sq, v) == Cardinality({k \in 1..Len(sq) : sq[k] = v})

ListKinds == {nodeKindListOrdered, nodeKindListUnordered, nodeKindListDescription}

\* The kind of the items of a list container.
itemKindOf(kind) ==
    IF kind = nodeKindListOrdered THEN nodeKindListOrderedItem
    ELSE IF kind = nodeKindListUnordered THEN nodeKindListUnorderedItem
    ELSE nodeKindListDescriptionItem

----------------------------------------------------------------------------
\* C1: Parse never panics: on every content the run goes on or ends with a
\* document, it never ends in a run-time panic.
C1_NeverPanics == pc # "panic"

----------------------------------------------------------------------------
\* The lines not yet read, whether the running parser holds a line, and
\* the depth of the calls.
Measure(d, st) ==
    <<Len(lines) - d.x, IF Len(st[Len(st)].line) > 0 THEN 1 ELSE 0, Len(st)>>

LexLess(a, b) ==
    \/ a[1] < b[1]
    \/ a[1] = b[1] /\ a[2] < b[2]
    \/ a[1] = b[1] /\ a[2] = b[2] /\ a[3] < b[3]

\* C2: every step of the body loop, of the three list parsers, of the block
\* sub-parser and of the list-block sub-parser makes progress: it reads a
\* line, or uses up the line it holds (itself or by calling the parser that
\* takes it as its first item), or returns that line to its caller; so the
\* run goes on until Parse is over, and it is over at the end of the input.
C2_Progress ==
    [][pc = "run" /\ stack[Len(stack)].fn # "parseHeader" =>
          \/ pc' = "run" /\ LexLess(Measure(doc', stack'), Measure(doc, stack))
          \/ pc' = "done" /\ doc'.x = Len(lines)]_vars

----------------------------------------------------------------------------
\* C3: the tree is well formed: every node reachable from the content root,
\* except the root, has a parent in the tree, is once in the child list of
\* that parent and in no other child list, leads to the parent's first
\* child over prev, and leads to the root over parent (no cycle).
C3_WellFormed ==
    \A id \in Attached(nodes) \ {content} :
        /\ nodes[id].parent \in Attached(nodes)
        /\ \A q \in Attached(nodes) :
              Occurrences(Children(nodes, q), id) =
                  IF q = nodes[id].parent THEN 1 ELSE 0
        /\ walkPrev(nodes, id, Len(nodes)) = nodes[nodes[id].parent].child
        /\ reachesRoot(nodes, id, Len(nodes))

\* A finished tree three levels deep in which a node with children has an
\* elder sibling.
C3_Witness ==
    /\ pc = "done"
    /\ \E id \in Attached(nodes) :
          /\ nodes[id].prev # NIL
          /\ nodes[id].child # NIL
          /\ nodes[id].parent \notin {NIL, content}
          /\ nodes[nodes[id].parent].parent \notin {NIL, content}

----------------------------------------------------------------------------
\* C4: the parent of every section in the tree is the content root or a
\* section of the level above.
C4_SectionParent ==
    \A id \in Attached(nodes) :
        nodes[id].kind \in SectionKinds =>
            \/ nodes[id].parent = content
            \/ nodes[nodes[id].parent].kind = nodes[id].kind - 1

\* A level-2 section under a level-1 section, and a level-1 section added
\* after a section that has children.
C4_Witness ==
    /\ pc = "done"
    /\ \E a, b \in Attached(nodes) :
          /\ nodes[a].kind = nodeKindSectionL2
          /\ nodes[nodes[a].parent].kind = nodeKindSectionL1
          /\ nodes[b].kind = nodeKindSectionL1
          /\ nodes[b].prev = nodes[a].parent

----------------------------------------------------------------------------
\* C5: every child of a list container in the tree is an item of the
\* container's kind and has the container's level, which is the level of
\* the first item.
C5_Homogeneous ==
    \A id \in Attached(nodes) :
        nodes[id].kind \in ListKinds =>
            \A k \in 1..Len(Children(nodes, id)) :
                /\ nodes[Children(nodes, id)[k]].kind = itemKindOf(nodes[id].kind)
                /\ nodes[Children(nodes, id)[k]].level = nodes[id].level

\* A list of two items whose first item holds a list of another level.
C5_Witness ==
    /\ pc = "done"
    /\ \E a, b \in Attached(nodes) :
          /\ nodes[a].kind \in ListKinds
          /\ nodes[b].kind = nodes[a].kind
          /\ nodes[b].level # nodes[a].level
          /\ nodes[b].parent = nodes[a].child
          /\ nodes[nodes[a].child].next # NIL

----------------------------------------------------------------------------
\* The lines a..b of the content as they stand, each with its newline.
RECURSIVE Verbatim(_, _)
Verbatim(a, b) == IF a > b THEN <<>> ELSE lines[a] \o <<LF>> \o Verbatim(a + 1, b)

\* The index of the first line from i on that is ln; 0 when there is none.
RECURSIVE closing(_, _)
closing(i, ln) ==
    IF i > Len(lines) THEN 0 ELSE IF lines[i] = ln THEN i ELSE closing(i + 1, ln)

\* The child added last to p.
lastChild(n, p) == lastSibling(n, n[p].child)

\* The index of the line the next step of the running parser handles: the
\* line it holds, which is the line read last, or the line it reads.
Handled(s) == IF Pending(s) THEN s.d.x ELSE s.d.x + 1

\* C6: a delimited listing or literal block stores its lines verbatim: when
\* the body loop handles an opening "----" or "...." that has a closing
\* delimiter, the node it adds to the tree has the block's kind and holds as
\* raw the lines in between as they stand, leading whitespace included.
C6_Verbatim ==
    \A ln \in {lnListing, lnLiteralBlock} :
        (/\ pc = "run"
         /\ Top(Cur).fn = "Parse"
         /\ Handled(Cur) \in 1..Len(lines)
         /\ lines[Handled(Cur)] = ln
         /\ closing(Handled(Cur) + 1, ln) > 0)
        => LET t == StepOf(Cur)
           IN /\ t.pc = "run"
              /\ t.n[t.d.nodeParent].child # NIL
              /\ t.n[lastChild(t.n, t.d.nodeParent)].kind = whatKindOfLine(ln).kind
              /\ t.n[lastChild(t.n, t.d.nodeParent)].raw =
                     Verbatim(Handled(Cur) + 1, closing(Handled(Cur) + 1, ln) - 1)

----------------------------------------------------------------------------
ListParsers == {"parseListOrdered", "parseListUnordered", "parseListDescription"}

\* The kind of the items a list parser collects.
parserItemKind(fn) ==
    IF fn = "parseListOrdered" THEN nodeKindListOrderedItem
    ELSE IF fn = "parseListUnordered" THEN nodeKindListUnorderedItem
    ELSE nodeKindListDescriptionItem

\* The container kind of an item kind.
listKindOf(kind) ==
    IF kind = nodeKindListOrderedItem THEN nodeKindListOrdered
    ELSE IF kind = nodeKindListUnorderedItem THEN nodeKindListUnordered
    ELSE nodeKindListDescription

\* What the dispatch of a list parser sees in s: the line it holds, or the
\* line it reads.
Seen(s) ==
    IF Pending(s) THEN [s |-> s, line |-> Top(s).line, end |-> FALSE]
    ELSE [s |-> docLine(s).s, line |-> docLine(s).line, end |-> AtEnd(docLine(s))]

\* The item a line of the given item kind makes.
itemOf(kind, line) ==
    IF kind = nodeKindListOrderedItem
    THEN nodeParseListOrdered(newAdocNode(kind), line)
    ELSE IF kind = nodeKindListUnorderedItem
    THEN nodeParseListUnordered(newAdocNode(kind), line)
    ELSE nodeParseListDescription(newAdocNode(kind), line)

\* The nearest of p and its ancestors that has the kind and level; NIL when
\* there is none.
RECURSIVE ancestorItem(_, _, _, _)
ancestorItem(n, p, kind, level) ==
    IF p = NIL THEN NIL
    ELSE IF n[p].kind = kind /\ n[p].level = level THEN p
    ELSE ancestorItem(n, n[p].parent, kind, level)

\* The run from s on until no parser holds a line any more.
RECURSIVE Settle(_)
Settle(s) == IF s.pc # "run" \/ ~Pending(s) THEN s ELSE Settle(StepOf(s))

\* TRUE in a state whose next step is a list parser handling an item of its
\* own kind at another level than its current item's.
OwnItemOtherLevel ==
    /\ pc = "run"
    /\ Top(Cur).fn \in ListParsers
    /\ ~Seen(Cur).end
    /\ Seen(Cur).s.d.kind = parserItemKind(Top(Cur).fn)
    /\ itemOf(parserItemKind(Top(Cur).fn), Seen(Cur).line).level
           # nodes[Top(Cur).listItem].level

\* C7: a list parser that handles an item of its own kind at another level
\* returns the line unconsumed when its parent or an ancestor is an item of
\* that kind and level, and the item then becomes a sibling of that
\* ancestor; otherwise it opens a list of the item's level under its
\* current item, with the item as first child.
C7_NestOrReturn ==
    OwnItemOtherLevel =>
        LET f == Top(Cur)
            kind == parserItemKind(f.fn)
            item == itemOf(kind, Seen(Cur).line)
            anc == ancestorItem(nodes, f.parent, kind, item.level)
            t == StepOf(Cur)
            u == Settle(t)
        IN IF anc # NIL
           THEN /\ Len(t.stack) = Len(stack) - 1
                /\ Top(t).line = Seen(Cur).line
                /\ \E id \in (Len(t.n) + 1)..Len(u.n) :
                      /\ u.n[id].kind = kind
                      /\ u.n[id].level = item.level
                      /\ u.n[id].raw = item.raw
                      /\ u.n[id].parent = u.n[anc].parent
           ELSE /\ Len(t.stack) = Len(stack) + 1
                /\ t.n[Top(t).list].kind = listKindOf(kind)
                /\ t.n[Top(t).list].level = item.level
                /\ t.n[Top(t).list].parent = f.listItem
                /\ t.n[Top(t).list].child = Top(t).listItem
                /\ t.n[Top(t).listItem].kind = kind
                /\ t.n[Top(t).listItem].raw = item.raw

----------------------------------------------------------------------------
\* The run from s on until line k has been read and no parser holds a line.
RECURSIVE RunPast(_, _)
RunPast(s, k) ==
    IF s.pc # "run" \/ (s.d.x >= k /\ ~Pending(s)) THEN s
    ELSE RunPast(StepOf(s), k)

\* The index of the last line of the block that starts at line i: the
\* closing delimiter of a listing (0 when there is none), else i itself.
blockEnd(i) == IF lines[i] = lnListing THEN closing(i + 1, lnListing) ELSE i

\* TRUE in a state whose next step is a list parser reading a lone "+" that
\* a paragraph, literal paragraph, admonition or listing block follows, and
\* after the block an item of the parser's kind at the current item's level.
ContinuedBlock ==
    /\ pc = "run"
    /\ Top(Cur).fn \in ListParsers
    /\ ~Pending(Cur)
    /\ doc.x + 3 <= Len(lines)
    /\ lines[doc.x + 1] = lnContinue
    /\ whatKindOfLine(lines[doc.x + 2]).kind \in
           {lineKindText, nodeKindLiteralParagraph, lineKindAdmonition,
            nodeKindBlockListingDelimiter}
    /\ blockEnd(doc.x + 2) \in 1..(Len(lines) - 1)
    /\ whatKindOfLine(lines[blockEnd(doc.x + 2) + 1]).kind = parserItemKind(Top(Cur).fn)
    /\ itemOf(parserItemKind(Top(Cur).fn),
              whatKindOfLine(lines[blockEnd(doc.x + 2) + 1]).got).level
           = nodes[Top(Cur).listItem].level

\* C8: the block after a lone "+" inside a list becomes a child of the item
\* that was current when the "+" was read, and the item of the same kind
\* and level that follows the block becomes the next sibling of that item.
C8_Continuation ==
    ContinuedBlock =>
        LET cur == Top(Cur).listItem
            kind == parserItemKind(Top(Cur).fn)
            last == blockEnd(doc.x + 2) + 1
            u == RunPast(Cur, last)
        IN /\ u.pc = "run"
           /\ u.n[cur].child # NIL
           /\ u.n[lastChild(u.n, cur)].kind \notin ListKinds
           /\ u.n[cur].next # NIL
           /\ u.n[u.n[cur].next].kind = kind
           /\ u.n[u.n[cur].next].raw =
                  itemOf(kind, whatKindOfLine(lines[last]).got).raw

----------------------------------------------------------------------------
\* TRUE for a header line of the form ":key: value".
validAttribute(line) ==
    Len(line) >= 2 /\ line[1] = ":" /\ parseAttribute(Cur, line, FALSE).v

\* The index of the first line after the x lines read that the header does
\* not skip: comments and attribute lines are skipped, blank lines too
\* before the title; 0 when there is none.
RECURSIVE nextHeaderLine(_, _)
nextHeaderLine(x, skipBlank) ==
    IF x >= Len(lines) THEN 0
    ELSE IF HasPrefix(lines[x + 1], <<"/", "/", "/", "/">>)
    THEN nextHeaderLine(ignoreCommentFrom(x + 1), skipBlank)
    ELSE IF \/ HasPrefix(lines[x + 1], <<"/", "/">>)
            \/ validAttribute(lines[x + 1])
            \/ skipBlank /\ lines[x + 1] = <<>>
    THEN nextHeaderLine(x + 1, skipBlank)
    ELSE x + 1

titleLine == nextHeaderLine(0, TRUE)

\* TRUE when the first line not skipped starts with "= " or "# ".
hasTitleLine ==
    /\ titleLine > 0
    /\ \/ HasPrefix(lines[titleLine], <<"=", SP>>)
       \/ HasPrefix(lines[titleLine], <<"#", SP>>)

authorLine == IF hasTitleLine THEN nextHeaderLine(titleLine, FALSE) ELSE 0

revisionLine ==
    IF authorLine > 0 /\ lines[authorLine] # <<>>
    THEN nextHeaderLine(authorLine, FALSE) ELSE 0

\* The revision number of a revision line: the text after "v" up to the
\* first comma.
revisionNumber(line) ==
    IF IndexByte(line, ",") >= 0 THEN SubSeq(line, 2, IndexByte(line, ","))
    ELSE From(line, 1)

\* What the header fields hold, by the lines they come from.
HeaderFields ==
    /\ (doc.Title # <<>> \/ doc.header # NIL) =>
           /\ hasTitleLine
           /\ doc.Title = TrimSpace(From(lines[titleLine], 2))
    /\ doc.Author # <<>> =>
           /\ authorLine > 0
           /\ doc.Author = lines[authorLine]
    /\ (doc.RevNumber # <<>> \/ doc.RevDate # <<>>) =>
           /\ revisionLine > 0
           /\ HasPrefix(lines[revisionLine], <<"v">>)
           /\ doc.RevNumber = revisionNumber(lines[revisionLine])
           /\ IndexByte(lines[revisionLine], ",") >= 0 =>
                  doc.RevDate = TrimSpace(From(lines[revisionLine],
                                               IndexByte(lines[revisionLine], ",") + 1))
    /\ ~hasTitleLine =>
           /\ doc.Title = <<>>
           /\ doc.Author = <<>>
           /\ doc.RevNumber = <<>>
           /\ doc.RevDate = <<>>
           /\ doc.header = NIL

\* C9: the header parser only moves forward through Title, Author,
\* Revision, End; the title is set only from the first line not skipped and
\* only if that line starts with "= " or "# "; the author is the next line
\* that is neither skipped nor an attribute; the revision is taken only from
\* a line that begins with "v" (number up to the first comma, trimmed date
\* after it); and without a title line the title, author and revision stay
\* empty and there is no header node.
C9_Header ==
    /\ (pc = "run" /\ Top(Cur).fn = "parseHeader" /\ Top(StepOf(Cur)).fn = "parseHeader")
           => Top(StepOf(Cur)).state >= Top(Cur).state
    /\ HeaderFields

----------------------------------------------------------------------------
\* TRUE for a "[name]" line whose name is a known style.
KnownStyle(line) ==
    /\ whatKindOfLine(line).kind = lineKindStyle
    /\ parseStyle(whatKindOfLine(line).got).styleKind # styleNone

\* The run from s on until the calls are at most depth deep.
RECURSIVE RunToReturn(_, _)
RunToReturn(s, depth) ==
    IF s.pc # "run" \/ Len(s.stack) <= depth THEN s
    ELSE RunToReturn(StepOf(s), depth)

\* TRUE in a state in which the body loop is about to read a known style
\* line that the first item of a description list follows directly.
StyledList ==
    /\ pc = "run"
    /\ Top(Cur).fn = "Parse"
    /\ ~Pending(Cur)
    /\ doc.x + 2 <= Len(lines)
    /\ KnownStyle(lines[doc.x + 1])
    /\ whatKindOfLine(lines[doc.x + 2]).kind = nodeKindListDescriptionItem

\* C10: a known style on the "[name]" line directly before the first item
\* of a top-level description list is in the style flags of the container
\* and of every item of the container.
C10_StyledList ==
    StyledList =>
        LET style == parseStyle(whatKindOfLine(lines[doc.x + 1]).got).styleKind
            t == StepOf(StepOf(Cur))
            list == Top(t).list
            u == RunToReturn(t, Len(stack))
        IN /\ Top(t).fn = "parseListDescription"
           /\ t.n[list].kind = nodeKindListDescription
           /\ BitAnd(t.n[list].style, style) = style
           /\ BitAnd(u.n[list].style, style) = style
           /\ Len(Children(u.n, list)) >= 1
           /\ \A k \in 1..Len(Children(u.n, list)) :
                 /\ u.n[Children(u.n, list)[k]].kind = nodeKindListDescriptionItem
                 /\ BitAnd(u.n[Children(u.n, list)[k]].style, style) = style

\* The parse of "[horizontal]", "CPU:: Fast", "RAM:: Plenty" is over: a
\* horizontal container holds two horizontal items, CPU and RAM.
C10_Witness ==
    /\ pc = "done"
    /\ lines = ScenarioS4
    /\ \E list \in Attached(nodes) :
          /\ nodes[list].kind = nodeKindListDescription
          /\ nodes[list].style = styleDescriptionHorizontal
          /\ Len(Children(nodes, list)) = 2
          /\ nodes[Children(nodes, list)[1]].style = styleDescriptionHorizontal
          /\ nodes[Children(nodes, list)[1]].rawTerm = <<"C", "P", "U">>
          /\ nodes[Children(nodes, list)[1]].raw = <<"F", "a", "s", "t">>
          /\ nodes[Children(nodes, list)[2]].style = styleDescriptionHorizontal
          /\ nodes[Children(nodes, list)[2]].rawTerm = <<"R", "A", "M">>
          /\ nodes[Children(nodes, list)[2]].raw = <<"P", "l", "e", "n", "t", "y">>

----------------------------------------------------------------------------
\* C12: GenerateID is idempotent: the id of an id is that id, for every
\* text, the empty one and one without letter or digit included.
C12_GenerateIDIdempotent ==
    (call.fn = "GenerateID" /\ Len(ret) = 2) => ret[2] = ret[1]

\* An id was generated from a text with a space and a capital, and again
\* from that id; and one from a text without letter or digit.
C12_Witness ==
    /\ call.fn = "GenerateID"
    /\ Len(ret) = 2
    /\ call.arg = <<"B", " ", "a">>
    /\ ret[1] = <<"_", "b", "_", "a">>
    /\ GenerateID(<<"-", " ">>) = <<>>

----------------------------------------------------------------------------
\* The entry of an attribute: NAME, or NAME=VALUE without the quotes.
entryOf(piece) ==
    IF piece.form = "name" THEN piece.name ELSE piece.name \o <<"=">> \o piece.value

\* C17: parseBlockAttribute returns nil for an input that does not start
\* with "[", and else one entry for each attribute up to the closing "]",
\* in the order of the input: NAME, or NAME=VALUE with the quotes of a
\* quoted value removed; "[]" gives no entry.
C17_BlockAttributes ==
    (call.fn = "parseBlockAttribute" /\ Len(ret) = 1) =>
        ret[1] = IF call.arg.bracket
                 THEN [x \in 1..Len(call.arg.pieces) |-> entryOf(call.arg.pieces[x])]
                 ELSE <<>>

\* The same for the inputs that end at their closing "]".
C17_Closed ==
    (call.fn = "parseBlockAttribute" /\ Len(ret) = 1 /\ call.arg.tail = <<>>) =>
        ret[1] = [x \in 1..Len(call.arg.pieces) |-> entryOf(call.arg.pieces[x])]

----------------------------------------------------------------------------
\* C18: parseListDescription on the line TERM, k >= 2 colons, spaces or
\* tabs or none, BODY sets rawTerm to TERM, level to k - 2 and raw to BODY,
\* for an empty BODY and for a BODY of one character as well.
C18_ListDescription ==
    (call.fn = "parseListDescription" /\ Len(ret) = 1) =>
        /\ ret[1].rawTerm = call.arg.term
        /\ ret[1].level = call.arg.colons - 2
        /\ ret[1].raw = call.arg.body

\* The same without the lines where fewer than two characters follow the
\* colons.
C18_LongTail ==
    (/\ call.fn = "parseListDescription"
     /\ Len(ret) = 1
     /\ Len(call.arg.spaces) + Len(call.arg.body) # 1
     /\ ~(call.arg.body = <<>> /\ Len(call.arg.spaces) > 1)) =>
        /\ ret[1].rawTerm = call.arg.term
        /\ ret[1].level = call.arg.colons - 2
        /\ ret[1].raw = call.arg.body

----------------------------------------------------------------------------
\* C11: rendering does not change the tree: after ToHTML every node, its
\* kind, text, classes, attributes, options and links, is as it was before,
\* for video and audio nodes as well.
C11_RenderKeepsTree == pc = "done" => ToHTML(doc, nodes).n = nodes

\* The same for the trees without a video node.
C11_NoVideo ==
    (pc = "done" /\ \A i \in 1..Len(nodes) : nodes[i].kind # nodeKindBlockVideo) =>
        ToHTML(doc, nodes).n = nodes

----------------------------------------------------------------------------
\* What toHTML writes for the node and the nodes below it: the begin
\* template, the children, the end template.
subtreeHTML(n, node) ==
    htmlEnd(toHTMLChild(htmlBegin([n |-> n, out |-> <<>>], node, n[node]), node),
            n[node]).out

\* The "div" elements that out opens and does not close.
openDivs(out) ==
    Cardinality({k \in 1..Len(out) : out[k].t = "open" /\ out[k].name = "div"})
        - Cardinality({k \in 1..Len(out) : out[k].t = "close" /\ out[k].name = "div"})

\* C16: the rendering of a section is balanced: for a section of any level
\* the end template closes the "div" elements the begin template opened, so
\* that as many "div" are open after the section's subtree as before it.
C16_SectionBalanced ==
    pc = "done" =>
        \A i \in Attached(nodes) :
            nodes[i].kind \in SectionKinds => openDivs(subtreeHTML(nodes, i)) = 0

\* The same for the sections of level 1 and 2.
C16_UpToL2 ==
    pc = "done" =>
        \A i \in Attached(nodes) :
            nodes[i].kind \in {nodeKindSectionL1, nodeKindSectionL2} =>
                openDivs(htmlBegin([n |-> nodes, out |-> <<>>], i, nodes[i]).out)
                    + openDivs(htmlEnd([n |-> nodes, out |-> <<>>], nodes[i]).out) = 0

----------------------------------------------------------------------------
\* TRUE when a paragraph of the tree has the text among its text.
InParagraph(n, text) ==
    \E i \in Attached(n) : n[i].kind = nodeKindParagraph /\ Index(n[i].raw, text) >= 0

\* C13: a line of no supported construct (a "****" fence, a ":" line that
\* is no valid attribute) that stands first or after an empty line, where
\* no node is open, is text of a paragraph of the tree when Parse returns:
\* the line does not disappear.
C13_UnknownAsText ==
    pc = "done" =>
        \A k \in 1..Len(lines) :
            (/\ lines[k] \in {lnSidebar, lnAttributeBad}
             /\ (k = 1 \/ lines[k - 1] = lnBlank)) => InParagraph(nodes, lines[k])

----------------------------------------------------------------------------
\* The lines the body loop of Parse reads as a block macro: the first line
\* and the lines after an empty line or after another such line.
RECURSIVE MacroRead(_)
MacroRead(k) ==
    /\ lines[k] \in {lnImageText, lnVideoText, lnAudioText}
    /\ (k = 1 \/ lines[k - 1] = lnBlank \/ MacroRead(k - 1))

\* C14: an "image::", "audio::" or "video::" line whose attributes fail to
\* parse gives a paragraph of the tree that Parse returns, with the line and
\* its prefix as text, wherever the line stands, as the last line as well.
C14_MacroAsText ==
    pc = "done" =>
        \A k \in 1..Len(lines) : MacroRead(k) => InParagraph(nodes, lines[k])

\* The same for the lines that an empty line follows.
C14_BeforeEmpty ==
    pc = "done" =>
        \A k \in 1..(Len(lines) - 1) :
            (MacroRead(k) /\ lines[k + 1] = lnBlank) => InParagraph(nodes, lines[k])

----------------------------------------------------------------------------
Delimiters == {lnListing, lnLiteralBlock, lnOpen, lnExample}

\* The kind of the block that a delimiter line opens.
blockKindOf(line) ==
    IF line = lnListing THEN nodeKindBlockListingDelimiter
    ELSE IF line = lnLiteralBlock THEN nodeKindBlockLiteralDelimiter
    ELSE IF line = lnOpen THEN nodeKindBlockOpen
    ELSE nodeKindBlockExample

\* Line k opens a block that is never closed: it is the first delimiter of
\* the content, it stands first or after an empty line with no list item
\* before it, and no later line is its closing delimiter.
Unclosed(k) ==
    /\ lines[k] \in Delimiters
    /\ \A j \in 1..(k - 1) : lines[j] \notin Delimiters \cup {lnUnordered}
    /\ (k = 1 \/ lines[k - 1] = lnBlank)
    /\ \A j \in (k + 1)..Len(lines) : lines[j] # lines[k]

\* The nodes from c down over the last child of each: the nodes that the
\* rest of the tree does not follow in document order.
RECURSIVE lastPath(_, _, _)
lastPath(n, c, fuel) ==
    IF n[c].child = NIL \/ fuel = 0 THEN {c}
    ELSE {c} \cup lastPath(n, lastSibling(n, n[c].child), fuel - 1)

\* TRUE when the text of node b holds every line after line k.
HoldsRest(b, k) ==
    \A j \in (k + 1)..Len(lines) : Index(b.raw, lines[j] \o <<LF>>) >= 0

\* C15: a delimited block ("----", "....", "--", "====") whose closing
\* delimiter never comes takes all lines up to the end of the input, and
\* the block node is in the tree when Parse returns: no node follows the
\* block, and a listing or literal block holds the lines as its text.
C15_UnclosedBlock ==
    pc = "done" =>
        \A k \in 1..Len(lines) :
            Unclosed(k) =>
                \E b \in lastPath(nodes, content, Len(nodes)) :
                    /\ nodes[b].kind = blockKindOf(lines[k])
                    /\ lines[k] \in {lnListing, lnLiteralBlock} =>
                           (nodes[b].child = NIL /\ HoldsRest(nodes[b], k))

\* Parse returned on a listing block and on an open block that were never
\* closed, each after a paragraph and with lines after the delimiter.
C15_Witness ==
    /\ pc = "done"
    /\ \/ lines = <<lnText, lnBlank, lnListing, lnText>>
       \/ lines = <<lnText, lnBlank, lnOpen, lnUnordered>>
    /\ Unclosed(3)

----------------------------------------------------------------------------
StyleFlags ==
    {styleSectionColophon, styleSectionAbstract, styleSectionPreface,
     styleSectionDedication, styleSectionPartIntroduction, styleSectionAppendix,
     styleSectionGlossary, styleSectionBibliography, styleSectionIndex,
     styleParagraphLead, styleParagraphNormal, styleNumberingArabic,
     styleNumberingDecimal, styleNumberingLoweralpha, styleNumberingUpperalpha,
     styleNumberingLowerroman, styleNumberingUpperroman, styleNumberingLowergreek,
     styleDescriptionHorizontal, styleDescriptionQandA, styleAdmonition,
     styleBlockListing}

\* The flags are 22 different powers of two, from 1 on.
DistinctBits == StyleFlags = {2 ^ i : i \in 0..21}

KnownStyleLines == {lnHorizontal, lnQandA}

\* The flag of a known style line.
flagOf(line) ==
    IF line = lnHorizontal THEN styleDescriptionHorizontal ELSE styleDescriptionQandA

\* The bitwise OR of the flags of the lines k to m.
RECURSIVE orFlags(_, _)
orFlags(k, m) == IF k > m THEN 0 ELSE BitOr(flagOf(lines[k]), orFlags(k + 1, m))

\* Line k comes to the body loop of Parse with no block open: it is the
\* first line or follows an empty line or a style line that came so.
RECURSIVE ReadByParse(_)
ReadByParse(k) ==
    \/ k = 1
    \/ lines[k - 1] = lnBlank
    \/ lines[k - 1] \in KnownStyleLines \cup {lnStyleUnknown} /\ ReadByParse(k - 1)

\* The lines k to m are a run of known style lines, as long as it can be,
\* that the body loop of Parse reads before any list.
StyleRun(k, m) ==
    /\ k <= m
    /\ \A j \in k..m : lines[j] \in KnownStyleLines
    /\ (k > 1 => lines[k - 1] \notin KnownStyleLines)
    /\ (m < Len(lines) => lines[m + 1] \notin KnownStyleLines)
    /\ \A j \in 1..(k - 1) :
           lines[j] \in KnownStyleLines \cup {lnBlank, lnText, lnStyleUnknown}
    /\ ReadByParse(k)

\* Parse has handled the lines up to line m and is at the head of its loop.
ParseAfter(m) ==
    /\ pc = "run"
    /\ Len(stack) = 1
    /\ stack[1].fn = "Parse"
    /\ stack[1].line = <<>>
    /\ doc.x = m

\* C19: the style flags are different single bits, and after a run of
\* consecutive known style lines the flags of the pending node are the
\* bitwise OR of the flags of the lines of the run, so that the node is
\* horizontal, or Q and A, exactly when that style is among them.
C19_StyleFlags ==
    /\ DistinctBits
    /\ \A k \in 1..Len(lines) : \A m \in k..Len(lines) :
           (StyleRun(k, m) /\ ParseAfter(m)) =>
               /\ nodes[doc.nodeCurrent].style = orFlags(k, m)
               /\ IsStyleHorizontal(nodes[doc.nodeCurrent])
                      <=> \E j \in k..m : lines[j] = lnHorizontal
               /\ IsStyleQandA(nodes[doc.nodeCurrent])
                      <=> \E j \in k..m : lines[j] = lnQandA

\* The same for the first run of the content.
C19_FirstRun ==
    /\ DistinctBits
    /\ \A k \in 1..Len(lines) : \A m \in k..Len(lines) :
           (/\ StyleRun(k, m)
            /\ ParseAfter(m)
            /\ \A j \in 1..(k - 1) : lines[j] \notin KnownStyleLines) =>
               nodes[doc.nodeCurrent].style = orFlags(k, m)

----------------------------------------------------------------------------
\* The 1-based index of the ":" that closes the key of the line, or 0.
closingColon(line) ==
    IF \E i \in 2..Len(line) : line[i] = ":"
    THEN Min({i \in 2..Len(line) : line[i] = ":"})
    ELSE 0

\* The form ":key:" with a key that starts with a letter, a digit or "_"
\* and goes on with letters, digits, "_" and "-".
ValidKeyLine(line) ==
    /\ closingColon(line) > 2
    /\ IsAlnum(line[2]) \/ line[2] = "_"
    /\ \A i \in 3..(closingColon(line) - 1) : IsAlnum(line[i]) \/ line[i] \in {"_", "-"}

\* The header parser is about to read a line that starts with ":".
HeaderReadsColon ==
    /\ pc = "run"
    /\ Top(Cur).fn = "parseHeader"
    /\ doc.x < Len(lines)
    /\ Len(lines[doc.x + 1]) > 0
    /\ lines[doc.x + 1][1] = ":"

\* C20: in the header a line that starts with ":" is recorded as an
\* attribute only if its key starts with a letter, a digit or "_" and goes
\* on with letters, digits, "_" or "-" up to the closing ":"; a line of
\* another form records nothing and is returned to the caller.
C20_HeaderAttribute ==
    (HeaderReadsColon /\ ~ValidKeyLine(lines[doc.x + 1])) =>
        /\ StepOf(Cur).d.attributes = doc.attributes
        /\ StepOf(Cur).pc = "run"
        /\ Top(StepOf(Cur)).fn = "Parse"
        /\ Top(StepOf(Cur)).line = lines[doc.x + 1]

\* The same for the lines without a closing ":" and the lines whose key
\* starts with another character.
C20_NoKey ==
    (/\ HeaderReadsColon
     /\ \/ closingColon(lines[doc.x + 1]) = 0
        \/ ~(IsAlnum(lines[doc.x + 1][2]) \/ lines[doc.x + 1][2] = "_")) =>
        /\ StepOf(Cur).d.attributes = doc.attributes
        /\ Top(StepOf(Cur)).fn = "Parse"
        /\ Top(StepOf(Cur)).line = lines[doc.x + 1]

----------------------------------------------------------------------------
\* The header parser is about to read line doc.x + 1 of the content.
HeaderReads ==
    /\ pc = "run"
    /\ Top(Cur).fn = "parseHeader"
    /\ doc.x < Len(lines)
    /\ StepOf(Cur).pc = "run"

\* The header parser keeps the line it reads: a blank line, a comment, an
\* attribute line, or the title, the author or the revision, which move
\* the state of the header on.
KeptByHeader(line, s) ==
    \/ line = lnBlank
    \/ HasPrefix(line, <<"/", "/">>)
    \/ line[1] = ":"
    \/ Top(s).state # Top(Cur).state

\* The body loop of Parse holds the line as Document.line classified it,
\* and handles it in its next step without reading another line.
HandedToBody(line, s) ==
    /\ Top(s).fn = "Parse"
    /\ Pending(s)
    /\ Top(s).spaces = whatKindOfLine(line).spaces
    /\ Top(s).line = whatKindOfLine(line).got
    /\ s.d.kind = whatKindOfLine(line).kind
    /\ s.d.x = doc.x + 1
    /\ StepOf(s) = parseDispatch(s, Top(s))

\* C21: a line that the header parser reads is either kept by the header
\* (title, author, revision, attribute, comment, blank line) or returned
\* to the body loop, which dispatches it once under its own line kind: the
\* hand-off from header to body drops no line.
C21_HandOff ==
    HeaderReads =>
        IF Top(StepOf(Cur)).fn = "parseHeader"
        THEN KeptByHeader(lines[doc.x + 1], StepOf(Cur))
        ELSE \/ lines[doc.x + 1] = lnBlank
             \/ HandedToBody(lines[doc.x + 1], StepOf(Cur))

\* The same for the lines that have text left once Document.line has
\* classified them.
C21_WithText ==
    (HeaderReads /\ Len(whatKindOfLine(lines[doc.x + 1]).got) > 0) =>
        IF Top(StepOf(Cur)).fn = "parseHeader"
        THEN KeptByHeader(lines[doc.x + 1], StepOf(Cur))
        ELSE HandedToBody(lines[doc.x + 1], StepOf(Cur))

----------------------------------------------------------------------------
ItemKinds ==
    {nodeKindListOrderedItem, nodeKindListUnorderedItem, nodeKindListDescriptionItem}

\* TRUE in a state whose next step is a list parser handling an item of
\* another list kind than its own.
OtherKindItem ==
    /\ pc = "run"
    /\ Top(Cur).fn \in ListParsers
    /\ ~Seen(Cur).end
    /\ Seen(Cur).s.d.kind \in ItemKinds \ {parserItemKind(Top(Cur).fn)}

\* The ancestor search for the item that the running list parser handles
\* next: with an ancestor item of the kind and level the parser returns
\* the line and the item becomes a sibling of that ancestor, without one a
\* list of the item's kind is opened under the current item.
SearchPolicy ==
    LET f == Top(Cur)
        kind == Seen(Cur).s.d.kind
        item == itemOf(kind, Seen(Cur).line)
        anc == ancestorItem(nodes, f.parent, kind, item.level)
        t == StepOf(Cur)
        u == Settle(t)
    IN IF anc # NIL
       THEN /\ Len(t.stack) = Len(stack) - 1
            /\ Top(t).line = Seen(Cur).line
            /\ \E id \in (Len(t.n) + 1)..Len(u.n) :
                  /\ u.n[id].kind = kind
                  /\ u.n[id].level = item.level
                  /\ u.n[id].raw = item.raw
                  /\ u.n[id].parent = u.n[anc].parent
       ELSE /\ Len(t.stack) = Len(stack) + 1
            /\ t.n[Top(t).list].kind = listKindOf(kind)
            /\ t.n[Top(t).list].parent = f.listItem
            /\ t.n[Top(t).list].child = Top(t).listItem
            /\ t.n[Top(t).listItem].kind = kind
            /\ t.n[Top(t).listItem].raw = item.raw

\* C22: each of the three list parsers treats an item of another list kind
\* by the ancestor search: when its parent or an ancestor of it is an item
\* of that kind and level the parser returns and the item becomes a
\* sibling of that ancestor, and only without such an ancestor a nested
\* list is opened under the current item.
C22_OtherKind == OtherKindItem => SearchPolicy

\* The same in contents without a description item.
C22_NoDescription ==
    (/\ OtherKindItem
     /\ \A k \in 1..Len(lines) :
            whatKindOfLine(lines[k]).kind # nodeKindListDescriptionItem) => SearchPolicy

----------------------------------------------------------------------------
\* TRUE when the parent links lead from c to p.
RECURSIVE below(_, _, _, _)
below(n, c, p, fuel) ==
    IF c = NIL \/ fuel = 0 THEN FALSE
    ELSE IF n[c].parent = p THEN TRUE
    ELSE below(n, n[c].parent, p, fuel - 1)

\* TRUE in a state whose next step is a list parser handling an item of its
\* own kind whose level is smaller than the level of its container.
SmallerOwnItem ==
    /\ pc = "run"
    /\ Top(Cur).fn \in ListParsers
    /\ ~Seen(Cur).end
    /\ Seen(Cur).s.d.kind = parserItemKind(Top(Cur).fn)
    /\ itemOf(parserItemKind(Top(Cur).fn), Seen(Cur).line).level
           < nodes[Top(Cur).list].level

\* The running list parser returns the line it handles next, and no node
\* made for that line hangs below the parser's container.
EndsParser ==
    LET t == StepOf(Cur)
        u == Settle(t)
    IN /\ Len(t.stack) = Len(stack) - 1
       /\ Top(t).line = Seen(Cur).line
       /\ \A id \in (Len(nodes) + 1)..Len(u.n) :
              ~below(u.n, id, Top(Cur).list, Len(u.n))

\* C23: an item of the parser's own kind whose level is smaller than the
\* level of the container ends the list parser: the line is returned to
\* the caller and the item is not attached below the container.
C23_SmallerEnds == SmallerOwnItem => EndsParser

\* The nearest item of the parser's kind and of the level of the item it
\* handles next, among the parent of the parser and its ancestors.
ownAncestor ==
    ancestorItem(nodes, Top(Cur).parent, parserItemKind(Top(Cur).fn),
                 itemOf(parserItemKind(Top(Cur).fn), Seen(Cur).line).level)

\* The running list parser opens a list of its kind under its current
\* item for the item it handles next.
NestsList ==
    LET t == StepOf(Cur)
    IN /\ Len(t.stack) = Len(stack) + 1
       /\ Top(t).fn = Top(Cur).fn
       /\ t.n[Top(t).list].parent = Top(Cur).listItem
       /\ t.n[Top(t).list].child = Top(t).listItem
       /\ t.n[Top(t).listItem].level
              = itemOf(parserItemKind(Top(Cur).fn), Seen(Cur).line).level

\* C23, amended: an item of the parser's own kind whose level is smaller
\* than the level of the container ends the list parser when the parent of
\* the parser or an ancestor of it is an item of that kind and level (the
\* line is returned and the item is not attached below the container);
\* without such an ancestor a list is opened for it under the current item.
C23_ReturnsOrNests ==
    SmallerOwnItem => IF ownAncestor # NIL THEN EndsParser ELSE NestsList

\* The parser of the nested list ".. b" is about to handle the second
\* ". a", whose level is that of the item the nested list hangs under.
C23_Witness ==
    /\ lines = <<lnOrdered, lnOrdered2, lnOrdered>>
    /\ SmallerOwnItem
    /\ ownAncestor # NIL
    /\ Len(stack) = 3
    /\ EndsParser

----------------------------------------------------------------------------
\* TRUE in a state whose next step is a list parser handling a line of one
\* of the kinds, read after an empty line.
AfterEmpty(kinds) ==
    /\ pc = "run"
    /\ Top(Cur).fn \in ListParsers
    /\ ~Seen(Cur).end
    /\ Seen(Cur).s.d.kind \in kinds
    /\ Seen(Cur).s.d.prevKind = lineKindEmpty

\* The running list parser returns the line it handles next to its caller
\* and writes it to no node.
ReturnsLine ==
    /\ Len(StepOf(Cur).stack) = Len(stack) - 1
    /\ Top(StepOf(Cur)).line = Seen(Cur).line
    /\ \A id \in 1..Len(nodes) : StepOf(Cur).n[id].raw = nodes[id].raw

\* C24: in each of the three list parsers a line of kind admonition, text,
\* literal paragraph or section that comes after an empty line ends the
\* list: the line is returned to the caller and is appended to no item.
C24_EndsList ==
    AfterEmpty({lineKindAdmonition, lineKindText, nodeKindLiteralParagraph}
                   \cup SectionKinds) => ReturnsLine

\* The same for text and section lines in the three parsers, and for
\* admonition lines in the ordered and the unordered parser.
C24_TextSection ==
    (\/ AfterEmpty({lineKindText} \cup SectionKinds)
     \/ /\ AfterEmpty({lineKindAdmonition})
        /\ Top(Cur).fn # "parseListDescription") => ReturnsLine

----------------------------------------------------------------------------
\* Line k is an empty line, or a comment line or the end of an empty
\* comment block with such a line before it.
RECURSIVE EmptyThenComments(_)
EmptyThenComments(k) ==
    /\ k >= 1
    /\ \/ lines[k] = lnBlank
       \/ lines[k] = lnComment /\ EmptyThenComments(k - 1)
       \/ /\ k >= 2
          /\ lines[k] = lnBlockComment
          /\ lines[k - 1] = lnBlockComment
          /\ EmptyThenComments(k - 2)

\* TRUE in a state whose next step is a list parser handling a text line
\* that follows an empty line, with nothing or only comments in between.
TextAfterEmpty ==
    /\ pc = "run"
    /\ Top(Cur).fn \in ListParsers
    /\ ~Seen(Cur).end
    /\ Seen(Cur).s.d.kind = lineKindText
    /\ EmptyThenComments(Seen(Cur).s.d.x - 1)

\* C25: comments inside a list are skipped with no other effect: the list
\* remembers an empty line over the comment lines and comment blocks that
\* follow it, so that the text line after them ends the list as it does
\* without the comments.
C25_CommentsSkipped == TextAfterEmpty => ReturnsLine

\* A list parser that reads a comment line or a comment block changes no
\* node and stays the running parser.
C25_NoNode ==
    (/\ pc = "run"
     /\ Top(Cur).fn \in ListParsers
     /\ ~Seen(Cur).end
     /\ Seen(Cur).s.d.kind \in {lineKindComment, lineKindBlockComment}) =>
        /\ StepOf(Cur).n = nodes
        /\ Len(StepOf(Cur).stack) = Len(stack)
        /\ ~Pending(StepOf(Cur))

----------------------------------------------------------------------------
\* TRUE in a state whose next step is Parse opening a block of one of the
\* kinds whose delimiter stands again on a later line.
OpensBlock(kinds) ==
    /\ pc = "run"
    /\ Top(Cur).fn = "Parse"
    /\ ~Seen(Cur).end
    /\ Seen(Cur).s.d.kind \in kinds
    /\ closing(Seen(Cur).s.d.x + 1, lines[Seen(Cur).s.d.x]) > 0

\* The index of the first line after the opener that is its delimiter.
closingLine == closing(Seen(Cur).s.d.x + 1, lines[Seen(Cur).s.d.x])

\* The block sub-parser has returned to Parse when the closing line has
\* been read: Parse is the running parser, holds no line, and no line
\* after the closing line has been read.
BlockReturned ==
    LET u == RunPast(StepOf(Cur), closingLine)
    IN /\ u.pc = "run"
       /\ Len(u.stack) = 1
       /\ Top(u).fn = "Parse"
       /\ u.d.x = closingLine

\* TRUE when a line between the opener and the closing line is a list item.
ListInBlock ==
    \E k \in (Seen(Cur).s.d.x + 1)..(closingLine - 1) :
        whatKindOfLine(lines[k]).kind \in ItemKinds

\* C26: the sub-parser of an open or example block returns at the first
\* line after the opener that is the block's delimiter, whatever is in
\* progress inside the block (paragraph, literal paragraph, list of any
\* kind), and the lines after it are parsed by Parse.
C26_BlockEnds ==
    OpensBlock({nodeKindBlockOpen, nodeKindBlockExample}) => BlockReturned

\* The same for an example block, and for an open block without a list
\* item in it.
C26_ExampleOrNoList ==
    (\/ OpensBlock({nodeKindBlockExample})
     \/ OpensBlock({nodeKindBlockOpen}) /\ ~ListInBlock) => BlockReturned

----------------------------------------------------------------------------
\* TRUE in a state whose next step is Parse opening a paragraph for a text
\* line while no node is open.
OpensParagraph ==
    /\ pc = "run"
    /\ Top(Cur).fn = "Parse"
    /\ ~Seen(Cur).end
    /\ Seen(Cur).s.d.kind = lineKindText
    /\ Seen(Cur).s.n[Seen(Cur).s.d.nodeCurrent].kind = nodeKindUnknown

\* The index of the first line after line i that is one of ends; the index
\* after the last line when there is none.
RECURSIVE firstOf(_, _)
firstOf(i, ends) ==
    IF i + 1 > Len(lines) \/ lines[i + 1] \in ends THEN i + 1
    ELSE firstOf(i + 1, ends)

\* The paragraph that the next step of Parse opens is attached with the
\* lines up to the first line of ends as its text, without that line.
ParagraphUpTo(ends) ==
    LET s == Seen(Cur).s
        p == s.d.nodeCurrent
        t == StepOf(Cur)
    IN /\ t.n[p].kind = nodeKindParagraph
       /\ t.n[p].parent = s.d.nodeParent
       /\ t.n[p].raw = Verbatim(s.d.x, firstOf(s.d.x, ends) - 1)

\* C27: a paragraph that a text line opens at top level ends at the first
\* following line that is empty, a block delimiter ("----", "....", "====",
\* "--") or a lone "+", and that line is not part of its text.
C27_ParagraphEnds ==
    OpensParagraph =>
        ParagraphUpTo({lnBlank, lnListing, lnLiteralBlock, lnExample, lnOpen,
                       lnContinue})

\* The same with the delimiters "----" and "...." alone.
C27_ListingLiteral ==
    OpensParagraph => ParagraphUpTo({lnBlank, lnListing, lnLiteralBlock, lnContinue})

----------------------------------------------------------------------------
\* The kinds of the lines that open a paragraph, a list or a delimited
\* block.
OpenerKinds ==
    {lineKindText, nodeKindBlockListingDelimiter, nodeKindBlockLiteralDelimiter,
     nodeKindBlockOpen, nodeKindBlockExample} \cup ItemKinds

\* The lines before line i are style and style-class lines, one at least,
\* and the lines of between.
DecoratedBy(i, between) ==
    /\ \A j \in 1..(i - 1) : lines[j] \in {lnHorizontal, lnStyleClass} \cup between
    /\ \E j \in 1..(i - 1) : lines[j] \in {lnHorizontal, lnStyleClass}
    /\ \A j \in 1..(i - 1) :
           lines[j] = lnAttribute =>
               \E h \in 1..(j - 1) : lines[h] \in {lnHorizontal, lnStyleClass}

\* TRUE in a state whose next step is Parse opening a block of one of the
\* kinds for a line that only such lines precede.
OpensDecorated(kinds, between) ==
    /\ pc = "run"
    /\ Top(Cur).fn = "Parse"
    /\ ~Seen(Cur).end
    /\ Seen(Cur).s.d.kind \in kinds
    /\ DecoratedBy(Seen(Cur).s.d.x, between)

\* The flags of the style lines among the lines 1 to k.
RECURSIVE flagsUpTo(_)
flagsUpTo(k) ==
    IF k = 0 THEN 0
    ELSE BitOr(flagsUpTo(k - 1),
               IF lines[k] = lnHorizontal THEN parseStyle(lines[k]).styleKind ELSE 0)

\* The classes of the style-class lines among the lines 1 to k.
RECURSIVE classesUpTo(_)
classesUpTo(k) ==
    IF k = 0 THEN <<>>
    ELSE IF lines[k] = lnStyleClass
    THEN nodeParseStyleClass([classes |-> classesUpTo(k - 1)], lines[k]).classes
    ELSE classesUpTo(k - 1)

\* The node that the next step of Parse makes for the block: the list
\* container for an item, else the pending node.
openedNode ==
    IF Seen(Cur).s.d.kind \in ItemKinds THEN Top(StepOf(Cur)).list
    ELSE Seen(Cur).s.d.nodeCurrent

\* The node made for the block has the flags and the classes of the lines
\* before it.
CarriesStyle ==
    /\ StepOf(Cur).n[openedNode].kind # nodeKindUnknown
    /\ StepOf(Cur).n[openedNode].style = flagsUpTo(Seen(Cur).s.d.x - 1)
    /\ StepOf(Cur).n[openedNode].classes = classesUpTo(Seen(Cur).s.d.x - 1)

\* C28: the style flags and style classes of "[name]" and "[.class]" lines
\* decorate the node that opens next: the node of the paragraph, list or
\* delimited block that follows them, also over an attribute line or an
\* empty line in between, has those flags and classes.
C28_Decorates == OpensDecorated(OpenerKinds, {lnBlank, lnAttribute}) => CarriesStyle

\* The same for a paragraph or a delimited block with nothing or empty
\* lines in between.
C28_ParagraphOrBlock == OpensDecorated(OpenerKinds \ ItemKinds, {lnBlank}) => CarriesStyle

----------------------------------------------------------------------------
\* TRUE in a state whose next step is Parse opening a block for a line
\* that a block title precedes, directly or over empty lines.
OpensTitled ==
    /\ pc = "run"
    /\ Top(Cur).fn = "Parse"
    /\ ~Seen(Cur).end
    /\ Seen(Cur).s.d.kind \in OpenerKinds
    /\ Seen(Cur).s.d.x > 1
    /\ \A j \in 1..(Seen(Cur).s.d.x - 1) : lines[j] \in {lnBlockTitle, lnBlank}
    /\ \E j \in 1..(Seen(Cur).s.d.x - 1) : lines[j] = lnBlockTitle

\* The nodes of a known kind that have a title.
Titled(n) == {i \in 1..Len(n) : n[i].kind # nodeKindUnknown /\ Len(n[i].rawTitle) > 0}

\* The content has one block title line.
OneTitle == Cardinality({j \in 1..Len(lines) : lines[j] = lnBlockTitle}) = 1

\* C29: a block title is attached to exactly the next block that opens:
\* the node of that block has the title, and no other node gets it, not a
\* list nested in the titled list and not a list inside a titled open block.
C29_TitleOnce ==
    /\ OpensTitled => StepOf(Cur).n[openedNode].rawTitle = From(lnBlockTitle, 1)
    /\ OneTitle => Cardinality(Titled(nodes)) <= 1

\* The same in contents without unordered and description items.
C29_OrderedOnly ==
    /\ OpensTitled => StepOf(Cur).n[openedNode].rawTitle = From(lnBlockTitle, 1)
    /\ (/\ OneTitle
        /\ \A j \in 1..Len(lines) :
               whatKindOfLine(lines[j]).kind \notin
                   {nodeKindListUnorderedItem, nodeKindListDescriptionItem})
           => Cardinality(Titled(nodes)) <= 1

----------------------------------------------------------------------------
\* The line is one or more markers, then a space or a tab, then any text.
MarkerThenSpace(line, marker) ==
    \E k \in 1..(Len(line) - 1) :
        /\ \A j \in 1..k : line[j] = marker
        /\ line[k + 1] \in {SP, TAB}

\* whatKindOfLine has classified an unindented line.
Classified == call.fn = "whatKindOfLine" /\ Len(ret) = 1

\* C30: whatKindOfLine gives an unindented line that starts with "." the
\* kind of an ordered item, and one that starts with "*" the kind of an
\* unordered item, exactly when the line is one or more of that marker,
\* then a space or a tab, then any text.
C30_ListItemLine ==
    Classified =>
        /\ ret[1].kind = nodeKindListOrderedItem <=> MarkerThenSpace(call.arg, ".")
        /\ ret[1].kind = nodeKindListUnorderedItem <=> MarkerThenSpace(call.arg, "*")

\* Every line of that form is classified as the item of its marker.
C30_FormIsItem ==
    Classified =>
        /\ MarkerThenSpace(call.arg, ".") => ret[1].kind = nodeKindListOrderedItem
        /\ MarkerThenSpace(call.arg, "*") => ret[1].kind = nodeKindListUnorderedItem

----------------------------------------------------------------------------
(* C31: a line is a description list item only with "::" before a space,   *)
(* a tab or the end of the line.                                           *)

\* The line holds "::" directly followed by a space or a tab, or ends
\* with "::".
ColonsThenSpace(line) ==
    \/ \E i \in 1..(Len(line) - 2) :
          line[i] = ":" /\ line[i + 1] = ":" /\ line[i + 2] \in {SP, TAB}
    \/ Len(line) >= 2 /\ line[Len(line) - 1] = ":" /\ line[Len(line)] = ":"

\* whatKindOfLine was called on the line and returned.
KindAsked == pc = "call" /\ call.fn = "whatKindOfLine" /\ Len(ret) = 1

\* C31: whatKindOfLine returns the kind description list item only for a
\* line that holds "::" followed by a space or a tab or that ends with
\* "::"; a line in which every "::" is directly followed by another
\* character is not a description list item.
C31_DescriptionLine ==
    (KindAsked /\ ret[1].kind = nodeKindListDescriptionItem)
        => ColonsThenSpace(call.arg)

\* A description list item holds "::" in the text that follows the
\* indentation.
C31_HasColons ==
    (KindAsked /\ ret[1].kind = nodeKindListDescriptionItem)
        => Index(ret[1].got, <<":", ":">>) >= 0

----------------------------------------------------------------------------
(* C32: an indented line is a list item or a literal paragraph.            *)

ListItemKinds ==
    {nodeKindListOrderedItem, nodeKindListUnorderedItem, nodeKindListDescriptionItem}

\* whatKindOfLine was called on a line that begins with a space or a tab.
IndentedAsked == KindAsked /\ Len(call.arg) > 0 /\ call.arg[1] \in {SP, TAB}

\* C32: for a line that begins with a space or a tab whatKindOfLine returns
\* the kind of a list item or literal paragraph, and never block title,
\* literal block delimiter, sidebar or text.
C32_IndentedLine ==
    IndentedAsked => ret[1].kind \in ListItemKinds \cup {nodeKindLiteralParagraph}

\* The same for an indented line whose first other character is neither
\* "." nor "*".
C32_NoMarker ==
    (IndentedAsked /\ ret[1].got[1] \notin {".", "*"})
        => ret[1].kind \in {nodeKindListDescriptionItem, nodeKindLiteralParagraph}

----------------------------------------------------------------------------
(* C33: the list-block sub-parser builds one block from the first line     *)
(* after the "+" that it does not skip.                                    *)

\* The index of the first line after the x lines read that is neither a
\* comment line nor inside a comment block, nor blank when blank lines are
\* skipped as well; 0 when there is none.
RECURSIVE nextBlockLine(_, _)
nextBlockLine(x, skipBlank) ==
    IF x >= Len(lines) THEN 0
    ELSE IF HasPrefix(lines[x + 1], <<"/", "/", "/", "/">>)
    THEN nextBlockLine(ignoreCommentFrom(x + 1), skipBlank)
    ELSE IF \/ HasPrefix(lines[x + 1], <<"/", "/">>)
            \/ skipBlank /\ lines[x + 1] = lnBlank
    THEN nextBlockLine(x + 1, skipBlank)
    ELSE x + 1

\* The kind of the node the list-block sub-parser makes for a line kind.
listBlockKind(kind) ==
    IF kind = lineKindText THEN nodeKindParagraph ELSE kind

\* The line kinds the sub-parser makes a block for.
ListBlockOpeners ==
    {lineKindText, nodeKindLiteralParagraph, lineKindAdmonition,
     nodeKindBlockListingDelimiter}

\* TRUE in a state in which the list-block sub-parser has been called for
\* the "+" line read last.
AfterContinue ==
    /\ pc = "run"
    /\ Top(Cur).fn = "parseListBlock"
    /\ doc.x >= 1
    /\ lines[doc.x] = lnContinue

\* What the sub-parser does with the line q, seen at its return: for a
\* text, literal paragraph, admonition or listing line one new node of that
\* kind is the last child of the current item of the caller; for a list
\* item no node is made and the caller holds the line.
OneBlockFrom(q) ==
    LET item == Top(Pop(Cur)).listItem
        kind == whatKindOfLine(lines[q]).kind
        u == RunToReturn(Cur, Len(stack) - 1)
    IN /\ u.pc = "run"
       /\ u.d.x >= q
       /\ IF kind \in ListItemKinds
          THEN /\ Len(u.n) = Len(nodes)
               /\ Top(u).line = whatKindOfLine(lines[q]).got
          ELSE /\ Len(u.n) = Len(nodes) + 1
               /\ u.n[item].child # NIL
               /\ lastChild(u.n, item) = Len(u.n)
               /\ u.n[Len(u.n)].kind = listBlockKind(kind)

\* The sub-parser returns at the blank line q with no block.
NoBlockAt(q) ==
    LET u == RunToReturn(Cur, Len(stack) - 1)
    IN /\ u.pc = "run"
       /\ u.d.x = q
       /\ u.n = nodes

\* The line q makes a block or is a list item.
ShapesBlock(q) ==
    q > 0 /\ whatKindOfLine(lines[q]).kind \in ListBlockOpeners \cup ListItemKinds

\* C33: after a "+" line the list-block sub-parser skips the blank lines
\* and the comments up to the next other line, builds one block of the
\* kind of that line (none when the line is a list item), and the block
\* becomes a child of the current item.
C33_OneBlock ==
    (AfterContinue /\ ShapesBlock(nextBlockLine(doc.x, TRUE)))
        => OneBlockFrom(nextBlockLine(doc.x, TRUE))

\* C33, amended: after a "+" line the list-block sub-parser skips the
\* comments; when the next other line is blank it returns at that line
\* with no block, and when it is a text, literal paragraph, admonition,
\* listing or list item line it builds one block of the kind of that line
\* (none for a list item), which becomes a child of the current item.
C33_BlankEnds ==
    AfterContinue =>
        LET q == nextBlockLine(doc.x, FALSE)
        IN /\ (q > 0 /\ lines[q] = lnBlank) => NoBlockAt(q)
           /\ ShapesBlock(q) => OneBlockFrom(q)

\* The sub-parser called for the "+" of ". a", "+", "// c", "a" makes the
\* paragraph "a" a child of the item.
C33_Witness ==
    /\ lines = <<lnOrdered, lnContinue, lnComment, lnText>>
    /\ AfterContinue
    /\ doc.x = 2
    /\ OneBlockFrom(4)

----------------------------------------------------------------------------
(* C34: the term of a description list item is the text before "::".       *)

\* parseListDescription has made the item of a line that whatKindOfLine
\* classified as description list item.
TermStored == pc = "call" /\ call.fn = "whatKindOfLine" /\ Len(ret) = 2

\* C34: the term parseListDescription stores for a description list item
\* is the whole text that precedes the first "::" of the line, also when
\* that text holds a single ":".
C34_WholeTerm ==
    TermStored =>
        ret[2].rawTerm = Upto(ret[1].got, Index(ret[1].got, <<":", ":">>))

\* The term is the text that precedes the first ":" of the line.
C34_FirstColon ==
    TermStored => ret[2].rawTerm = Upto(ret[1].got, IndexByte(ret[1].got, ":"))

----------------------------------------------------------------------------
(* C35: the delimiter line that ends a literal paragraph opens its block.  *)

\* The kinds of the lines that end a paragraph and a literal paragraph
\* without being consumed.
DelimiterKinds ==
    {nodeKindBlockListingDelimiter, nodeKindBlockLiteralDelimiter,
     nodeKindBlockLiteralNamed}

\* TRUE in a state whose next step is the body loop making a node for a
\* line of the kind, whose lines end at a delimiter line.
EndedByDelimiter(kind) ==
    /\ pc = "run"
    /\ Top(Cur).fn = "Parse"
    /\ ~Seen(Cur).end
    /\ Seen(Cur).s.d.kind = kind
    /\ nodes[doc.nodeCurrent].kind = nodeKindUnknown
    /\ StepOf(Cur).pc = "run"
    /\ StepOf(Cur).d.kind \in DelimiterKinds

\* The body loop holds the delimiter line after the step, and its next
\* step makes the pending node a block of the kind of the delimiter under
\* the current parent.
DelimiterOpens ==
    LET t == StepOf(Cur)
        u == StepOf(t)
    IN /\ Top(t).line = lines[t.d.x]
       /\ u.n[t.d.nodeCurrent].kind = t.d.kind
       /\ u.n[t.d.nodeCurrent].parent = t.d.nodeParent

\* C35: the delimiter line ("----", "....", "[literal]") that ends a
\* top-level literal paragraph is not discarded: the body loop dispatches
\* it as the opener of its own block, as it does when the delimiter ends an
\* ordinary paragraph.
C35_TerminatorKept ==
    (EndedByDelimiter(nodeKindLiteralParagraph) \/ EndedByDelimiter(lineKindText))
        => DelimiterOpens

\* The same for the ordinary paragraph alone.
C35_AfterParagraph == EndedByDelimiter(lineKindText) => DelimiterOpens

----------------------------------------------------------------------------
(* C36: siblings stand in the order of their first lines.                  *)

\* TRUE when a and b are children of the same node and a comes before b in
\* the child list.
Before(n, a, b) ==
    LET ch == Children(n, n[a].parent)
    IN \E i, j \in 1..Len(ch) : i < j /\ ch[i] = a /\ ch[j] = b

\* TRUE in a state in which the body loop runs and the pending node has
\* its kind from a line read before: every node allocated from here on is
\* made for a later line.
OpenNode ==
    /\ pc = "run"
    /\ Top(Cur).fn = "Parse"
    /\ nodes[doc.nodeCurrent].kind # nodeKindUnknown

\* C36: children are kept in document order: in the tree Parse returns, a
\* node whose first line was read earlier stands before every sibling made
\* for a later line, also when a list follows a node that is still open.
C36_DocumentOrder ==
    OpenNode =>
        LET w == RunToReturn(Cur, 0)
        IN \A id \in (Len(nodes) + 1)..Len(w.n) :
              (/\ w.pc = "done"
               /\ {id, doc.nodeCurrent} \subseteq Attached(w.n)
               /\ w.n[id].parent = w.n[doc.nodeCurrent].parent)
                  => Before(w.n, doc.nodeCurrent, id)

\* Children are kept in the order in which they are attached: a step of a
\* parser leaves every child list as it is or adds nodes at its end.
C36_AttachOrder ==
    pc = "run" =>
        \A p \in Attached(nodes) :
            LET old == Children(nodes, p)
                new == Children(StepOf(Cur).n, p)
            IN Len(old) <= Len(new) /\ SubSeq(new, 1, Len(old)) = old

----------------------------------------------------------------------------
(* C37: a section is a child of the last section of the level above.       *)

\* The sections of the tree with the kind, and those of a lower kind.
SectionsOf(kind) == {id \in Attached(nodes) : nodes[id].kind = kind}

SectionsBelow(kind) ==
    {id \in Attached(nodes) : nodes[id].kind \in SectionKinds /\ nodes[id].kind < kind}

\* TRUE in a state whose next step is the body loop making a section of
\* level 2 or more, when a section of the level above is in the tree and no
\* section of a lower level than that was made after it (a section made
\* later is allocated later).
SectionAfterUpper ==
    /\ pc = "run"
    /\ Top(Cur).fn = "Parse"
    /\ ~Seen(Cur).end
    /\ Seen(Cur).s.d.kind \in SectionKinds \ {nodeKindSectionL1}
    /\ SectionsOf(Seen(Cur).s.d.kind - 1) # {}
    /\ \A b \in SectionsBelow(Seen(Cur).s.d.kind - 1) :
          b < Max(SectionsOf(Seen(Cur).s.d.kind - 1))

\* The last section of the level above the section the step makes.
upperSection == Max(SectionsOf(Seen(Cur).s.d.kind - 1))

\* The section the step makes is a child of p.
SectionUnder(p) ==
    LET t == StepOf(Cur)
    IN /\ t.n[t.d.nodeParent].kind = Seen(Cur).s.d.kind
       /\ t.n[t.d.nodeParent].parent = p

\* The node p and its ancestors.
RECURSIVE selfAndAncestors(_, _, _)
selfAndAncestors(n, p, fuel) ==
    IF p = NIL \/ fuel = 0 THEN {}
    ELSE {p} \cup selfAndAncestors(n, n[p].parent, fuel - 1)

\* C37: a section of level k >= 2 that comes after a section of level k-1,
\* with no section of a lower level than k-1 between the two, becomes a
\* child of that section, also when deeper sections came in between.
C37_UnderUpper == SectionAfterUpper => SectionUnder(upperSection)

\* C37, amended: such a section becomes a child of the section of level
\* k-1 when that section is the current parent or one of its ancestors
\* (also over deeper sections between the two), and a child of the content
\* root when it is not, as for the sections L1, L3, L2.
C37_AncestorOrRoot ==
    SectionAfterUpper =>
        IF upperSection \in selfAndAncestors(nodes, doc.nodeParent, Len(nodes))
        THEN SectionUnder(upperSection)
        ELSE SectionUnder(content)

\* The second level-2 section of L1, L2, L3, L2 is about to be made: the
\* level-1 section is an ancestor of the current parent, the level-3
\* section, and gets the new section as a child.
C37_Witness ==
    /\ lines = <<lnSection1, lnSection2, lnSection3, lnSection2>>
    /\ doc.x = 3
    /\ SectionAfterUpper
    /\ nodes[doc.nodeParent].kind = nodeKindSectionL3
    /\ upperSection \in selfAndAncestors(nodes, doc.nodeParent, Len(nodes))
    /\ SectionUnder(upperSection)

----------------------------------------------------------------------------
(* C38: no node of the tree has the kind nodeKindUnknown.                  *)

\* C38: every node reachable from the content root has a kind other than
\* nodeKindUnknown: a pending node that never got a kind is not attached,
\* by the body loop, by the block sub-parser or by a list parser.
C38_NoUnknown ==
    \A id \in Attached(nodes) : nodes[id].kind # nodeKindUnknown

\* A node of kind nodeKindUnknown in the tree is a child of the node of a
\* block sub-parser: an open or example block, or one that a page break
\* line inside it gave the kind lineKindPageBreak.
C38_OnlyInBlock ==
    \A id \in Attached(nodes) :
        nodes[id].kind = nodeKindUnknown =>
            nodes[nodes[id].parent].kind \in
                {nodeKindBlockOpen, nodeKindBlockExample, lineKindPageBreak}

----------------------------------------------------------------------------
(* C39: a block keeps its kind.                                            *)

\* TRUE in a state whose next step is the block sub-parser handling a line
\* of one of the kinds.
BlockSees(kinds) ==
    /\ pc = "run"
    /\ Top(Cur).fn = "parseBlock"
    /\ ~Seen(Cur).end
    /\ Seen(Cur).s.d.kind \in kinds

\* The step leaves the kind of every node that has one as it is.
KindsKept ==
    \A id \in 1..Len(nodes) :
        nodes[id].kind # nodeKindUnknown => StepOf(Cur).n[id].kind = nodes[id].kind

\* The step of the block sub-parser adds a node of the kind of the line at
\* the end of the child list of the block.
InnerNode ==
    LET t == StepOf(Cur)
        before == Children(nodes, Top(Cur).parent)
    IN /\ t.n[Top(Cur).parent].child # NIL
       /\ \A k \in 1..Len(before) : before[k] # lastChild(t.n, Top(Cur).parent)
       /\ t.n[lastChild(t.n, Top(Cur).parent)].kind = Seen(Cur).s.d.kind

\* C39: the kind of a node does not change once it is set: an open or
\* example block keeps its kind whatever lines stand inside it, and a page
\* break or rule line inside the block makes a child node of its own kind.
C39_KindKept ==
    /\ pc = "run" => KindsKept
    /\ BlockSees({lineKindPageBreak, lineKindHorizontalRule}) => InnerNode

\* The same for every step but that of the block sub-parser on a page
\* break line.
C39_ButPageBreak ==
    (pc = "run" /\ ~BlockSees({lineKindPageBreak}))
        => /\ KindsKept
           /\ BlockSees({lineKindHorizontalRule}) => InnerNode

----------------------------------------------------------------------------
(* C40: the cursor of the body loop.                                       *)

\* TRUE while Parse runs after parseHeader has returned.
InBody ==
    /\ pc = "run"
    /\ \A k \in 1..Len(stack) : stack[k].fn # "parseHeader"

\* The preamble nodes of the tree.
Preambles == {id \in Attached(nodes) : nodes[id].kind = nodeKindPreamble}

\* TRUE when a section is in the tree.
SectionAttached == \E id \in Attached(nodes) : nodes[id].kind \in SectionKinds

\* C40: while the body of Parse runs, doc.nodeCurrent and doc.nodeParent
\* are not nil; doc.nodeParent is the preamble, the content root or a
\* section and is reachable from the content root; and once a section is
\* in the tree doc.nodeParent is not the preamble and no step adds a child
\* to the preamble.
C40_Cursor ==
    InBody =>
        /\ doc.nodeCurrent # NIL
        /\ doc.nodeParent # NIL
        /\ nodes[doc.nodeParent].kind \in
               {nodeKindPreamble, nodeKindDocContent} \cup SectionKinds
        /\ doc.nodeParent \in Attached(nodes)
        /\ SectionAttached =>
               /\ nodes[doc.nodeParent].kind # nodeKindPreamble
               /\ \A p \in Preambles :
                     Children(StepOf(Cur).n, p) = Children(nodes, p)

\* The body loop runs with a level-2 section as parent that has a child,
\* after the preamble got a child before the first section.
C40_Witness ==
    /\ InBody
    /\ SectionAttached
    /\ nodes[doc.nodeParent].kind = nodeKindSectionL2
    /\ nodes[doc.nodeParent].child # NIL
    /\ \E p \in Preambles : nodes[p].child # NIL

============================================================================
